---- MODULE Spec2Model ----
(***************************************************************************)
(* TaskFlow: the task store (tables tasks and task_events), the status     *)
(* state machine, the unary CreateTask / UpdateTask handlers and the       *)
(* in-memory event bus (taskUpdateCh, watchers) of the TaskHandler.        *)
(***************************************************************************)
EXTENDS Integers, Sequences, FiniteSets, TLC

(* ---------------------------------------------------------------------- *)
(* model.TaskStatus                                                        *)
(* ---------------------------------------------------------------------- *)
TaskStatusUnspecified == 0
TaskStatusPending == 1
TaskStatusRunning == 2
TaskStatusSucceeded == 3
TaskStatusFailed == 4
TaskStatusCancelled == 5
TaskStatusTimeout == 6

(* ---------------------------------------------------------------------- *)
(* errorcode.ErrorCode                                                     *)
(* ---------------------------------------------------------------------- *)
ErrCodeSuccess == 0
ErrCodeUnknown == 1000
ErrCodeInvalidParam == 1001
ErrCodeUnauthorized == 1002
ErrCodeForbidden == 1003
ErrCodeNotFound == 1004
ErrCodeAlreadyExists == 1005
ErrCodeInvalidState == 1006
ErrCodeTimeout == 1007
ErrCodeRateLimit == 1008
ErrCodeTaskNotFound == 2000
ErrCodeTaskAlreadyRunning == 2001
ErrCodeTaskTerminated == 2002
ErrCodeTaskCancelled == 2003
ErrCodeTaskTimeout == 2004
ErrCodeTaskDependency == 2005
ErrCodeTaskRetryExhausted == 2006
ErrCodeDBError == 3000
ErrCodeDBNotConnected == 3001
ErrCodeDBTransaction == 3002
ErrCodeGRPCNotReady == 4000
ErrCodeGRPCConnection == 4001
ErrCodeGRPCDeadline == 4002

(* ---------------------------------------------------------------------- *)
(* Bounds of the model                                                     *)
(* ---------------------------------------------------------------------- *)
\* Largest int32 value tried as a status (one past the last enum value).
MaxStatusVal == 7
\* Number of task ids (uuids) that can be handed out.
MaxTasks == 3
\* Number of concurrently running unary handlers (goroutines).
NumProcs == 2
\* Total number of handler calls started in one behaviour.
MaxCalls == 4
\* Capacity of taskUpdateCh as modelled (make(chan, 100) in NewTaskHandler).
TaskUpdateChCap == 2
\* Capacity of a watcher channel as modelled (make(chan, 10) in WatchTask).
WatcherChCap == 2
\* Number of WatchTask streams.
NumWatchers == 2
\* Number of requests a client sends on one BatchCreateTasks stream.
MaxBatch == 3
\* Number of commands a client sends on the TaskUpdates stream.
MaxCmds == 2
\* Capacity of recvCh and of sendCh as modelled (make(chan, 10) in
\* TaskUpdates).
StreamChCap == 1
\* Number of responses written to the TaskUpdates stream in one behaviour.
MaxOut == 3
\* Number of consecutive pages a client requests from ListTasks.
MaxPages == 4
\* Last second of the wall clock.
MaxTime == 2
MaxInstant == 5
TicksPerSecond == 2
\* Calls of Server.Start, and signals sent to the process.
MaxStarts == 3
MaxSignals == 2
\* Rounds of broadcast and receive in a unit test of the notifier.
MaxRounds == 3

StatusVals == 0..MaxStatusVal
Statuses == TaskStatusUnspecified..TaskStatusTimeout
TaskIds == 1..MaxTasks
Procs == 1..NumProcs
Watchers == 1..NumWatchers
\* The channel of the TaskUpdates stream's global subscription.
globalCh == 0
\* The goroutine of the TaskUpdates main loop, as a caller of CreateTask and
\* UpdateTask.
UpdProc == 1
\* Subscriber channels: one per WatchTask stream, and globalCh.
Chans == Watchers \cup {globalCh}
\* Keys of the watchers map: a task id, or 0 for the global key "".
WatchKeys == 0..MaxTasks
\* The two callers of a race between two status-changing UpdateTask calls.
RaceProcs == {1, 2}
\* The goroutines that call Server.Start.
Starters == {1, 2}

VARIABLES
    tasks,          \* table tasks: id -> row
    task_events,    \* table task_events, in insertion order
    pc,             \* position of each unary handler goroutine
    req,            \* the UpdateTaskRequest a handler is serving
    task,           \* the *model.Task a handler got from GetByID
    oldStatus,      \* UpdateTask's local oldStatus
    ret,            \* the gRPC status a handler returned
    calls,          \* number of handler calls started
    statusChanges,  \* per task, how often its persisted status changed
    taskUpdateCh,   \* h.taskUpdateCh: events waiting for the notifier
    published,      \* every event ever sent on taskUpdateCh, in order
    watchers,       \* h.watchers: key -> channels registered under it
    ch,             \* content of each watcher's channel
    wpc,            \* position of each WatchTask handler
    wreq,           \* the WatchTaskRequest each WatchTask serves
    winit,          \* WatchTask: index of the next task id to fetch
    watchKey,       \* WatchTask's local watchKey
    sent,           \* events each WatchTask wrote to its stream
    bpc,            \* position of the BatchCreateTasks handler
    batch,          \* BatchCreateTasks' locals and its response; outcomes:
                    \* per request received, its error message or ""
    upc,            \* position of the TaskUpdates handler's main loop
    recvCh,         \* TaskUpdates: recvCh, the commands read from the stream
    recvClosed,     \* TaskUpdates: recvCh has been closed
    sendCh,         \* TaskUpdates: sendCh, the responses to write
    out,            \* TaskUpdates: the responses written to the stream
    handled,        \* TaskUpdates: the commands the main loop has taken
    uresp,          \* TaskUpdates: the response about to go to sendCh
    ureq,           \* TaskUpdates: the command being served
    ucmds,          \* TaskUpdates: number of commands the client has sent
    rpc,            \* TaskUpdates: position of the receiving goroutine
    rreq,           \* TaskUpdates: the command the receiving goroutine holds
    spc,            \* TaskUpdates: position of the sending goroutine
    sresp,          \* TaskUpdates: the response the sending goroutine holds
    cancelled,      \* TaskUpdates: stream.Context() is done
    sendClosed,     \* TaskUpdates: sendCh has been closed
    fromIn,         \* isValidStatusTransition: argument from
    toIn,           \* isValidStatusTransition: argument to
    verdict,        \* isValidStatusTransition: "none" or its result
    list,           \* a client paging through ListTasks: its filter and page
                    \* size, the pages it got, the last request and response
    now,            \* the wall clock, in seconds
    event_ts,       \* column timestamp of table task_events, row by row
    taskRows,       \* table tasks with every column: id -> row
    created,        \* what CreateTask returned: its status and its pb.Task
    got,            \* what GetTask returned: its status and its pb.Task
    gpc,            \* position of the client that creates and then reads
    errIn,          \* the TaskError handed to ToGRPCStatus
    errOut,         \* the gRPC status ToGRPCStatus returned for it
    mwOpts,         \* the serverOptions GetUnaryServerOptions was given
    mwReq,          \* an RPC arriving at the gRPC server built from them
    mwOut,          \* how serving that RPC ended
    startMutex,     \* Server.startMutex: 0 when free, else its holder
    started,        \* Server.started
    grpcServer,     \* the gRPC server is serving
    httpServer,     \* the HTTP server is serving
    spos,           \* position of each goroutine that calls Server.Start
    sret,           \* what each call of Server.Start returned
    stopCh,         \* waitForShutdown: stopCh, the signals waiting in it
    starts,         \* number of calls of Server.Start so far
    signals,        \* number of signals the process was sent so far
    http,           \* the last GET /api/v1/tasks: its query and its response
    closes,         \* per watcher channel, how often close() was called on it
    panicked,       \* the notifier sent on a closed channel
    test            \* a unit test of the notifier: the task id it uses, its
                    \* rounds, its position, the rounds done, what it received

vars == <<tasks, task_events, pc, req, task, oldStatus, ret, calls,
          statusChanges, taskUpdateCh, published, watchers, ch, wpc,
          watchKey, sent, bpc, batch, fromIn, toIn, verdict, wreq, winit, upc,
          recvCh, recvClosed, sendCh, out, handled, uresp, ureq, ucmds, rpc,
          rreq, spc, sresp, cancelled, sendClosed, list, now, event_ts,
          taskRows, created, got, gpc, errIn, errOut, mwOpts, mwReq,
          mwOut, startMutex, started, grpcServer, httpServer, spos, sret,
          stopCh, starts, signals, test, http, closes, panicked>>

storeVars == <<tasks, task_events, statusChanges, event_ts>>
procVars == <<pc, req, task, oldStatus, ret, calls>>
busVars == <<taskUpdateCh, published, watchers, ch>>
watchVars == <<wpc, wreq, winit, watchKey, sent>>
batchVars == <<bpc, batch>>
pureVars == <<fromIn, toIn, verdict>>
listVars == <<list>>
clockVars == <<now>>
roundVars == <<taskRows, created, got, gpc>>
errVars == <<errIn, errOut>>
mwVars == <<mwOpts, mwReq, mwOut>>
srvVars == <<startMutex, started, grpcServer, httpServer, spos, sret, stopCh,
            starts, signals>>
testVars == <<test>>
httpVars == <<http>>
closeVars == <<closes, panicked>>
otherVars == <<roundVars, errVars, mwVars, srvVars, testVars, httpVars,
               closeVars>>
besidesRound == <<errVars, mwVars, srvVars, testVars, httpVars, closeVars>>
besidesErr == <<roundVars, mwVars, srvVars, testVars, httpVars, closeVars>>
besidesMw == <<roundVars, errVars, srvVars, testVars, httpVars, closeVars>>
besidesSrv == <<roundVars, errVars, mwVars, testVars, httpVars, closeVars>>
besidesTest == <<roundVars, errVars, mwVars, srvVars, httpVars, closeVars>>
besidesHttp == <<roundVars, errVars, mwVars, srvVars, testVars, closeVars>>
besidesClose == <<roundVars, errVars, mwVars, srvVars, testVars, httpVars>>
goVars == <<rpc, rreq, spc, sresp, cancelled, sendClosed>>
updVars == <<upc, recvCh, recvClosed, sendCh, out, handled, uresp, ureq, ucmds,
             goVars>>

(* ---------------------------------------------------------------------- *)
(* State machine                                                           *)
(* ---------------------------------------------------------------------- *)
\* A transition table that lets a FAILED task be restarted.
isValidStatusTransitionRetry(from, to) ==
    IF from = TaskStatusPending
    THEN to = TaskStatusRunning \/ to = TaskStatusCancelled
    ELSE IF from = TaskStatusRunning
    THEN \/ to = TaskStatusSucceeded
         \/ to = TaskStatusFailed
         \/ to = TaskStatusTimeout
         \/ to = TaskStatusCancelled
    ELSE from = TaskStatusFailed /\ to = TaskStatusRunning

\* A transition table that lets any task be cancelled, terminal ones too.
isValidStatusTransitionCancelAny(from, to) ==
    IF to = TaskStatusCancelled /\ from # TaskStatusCancelled
    THEN TRUE
    ELSE IF from = TaskStatusPending
    THEN to = TaskStatusRunning
    ELSE IF from = TaskStatusRunning
    THEN \/ to = TaskStatusSucceeded
         \/ to = TaskStatusFailed
         \/ to = TaskStatusTimeout
    ELSE FALSE

\* A transition table that accepts a status the task already has.
isValidStatusTransitionNoop(from, to) ==
    IF from = to
    THEN TRUE
    ELSE IF from = TaskStatusPending
    THEN to = TaskStatusRunning \/ to = TaskStatusCancelled
    ELSE IF from = TaskStatusRunning
    THEN \/ to = TaskStatusSucceeded
         \/ to = TaskStatusFailed
         \/ to = TaskStatusTimeout
         \/ to = TaskStatusCancelled
    ELSE FALSE

isValidStatusTransition(from, to) ==
    IF from = TaskStatusPending
    THEN to = TaskStatusRunning \/ to = TaskStatusCancelled
    ELSE IF from = TaskStatusRunning
    THEN \/ to = TaskStatusSucceeded
         \/ to = TaskStatusFailed
         \/ to = TaskStatusTimeout
         \/ to = TaskStatusCancelled
    ELSE FALSE

IsTerminal(s) ==
    \/ s = TaskStatusSucceeded
    \/ s = TaskStatusFailed
    \/ s = TaskStatusCancelled
    \/ s = TaskStatusTimeout

(* ---------------------------------------------------------------------- *)
(* Errors                                                                  *)
(* ---------------------------------------------------------------------- *)
GetCodeMsg(code) ==
    CASE code = ErrCodeSuccess -> "success"
      [] code = ErrCodeUnknown -> "unknown error"
      [] code = ErrCodeInvalidParam -> "invalid parameter"
      [] code = ErrCodeUnauthorized -> "unauthorized"
      [] code = ErrCodeForbidden -> "forbidden"
      [] code = ErrCodeNotFound -> "resource not found"
      [] code = ErrCodeAlreadyExists -> "resource already exists"
      [] code = ErrCodeInvalidState -> "invalid state"
      [] code = ErrCodeTimeout -> "timeout"
      [] code = ErrCodeRateLimit -> "rate limit exceeded"
      [] code = ErrCodeTaskNotFound -> "task not found"
      [] code = ErrCodeTaskAlreadyRunning -> "task already running"
      [] code = ErrCodeTaskTerminated -> "task already terminated"
      [] code = ErrCodeTaskCancelled -> "task cancelled"
      [] code = ErrCodeTaskTimeout -> "task timeout"
      [] code = ErrCodeTaskDependency -> "task dependency not satisfied"
      [] code = ErrCodeTaskRetryExhausted -> "task retry exhausted"
      [] code = ErrCodeDBError -> "database error"
      [] code = ErrCodeDBNotConnected -> "database not connected"
      [] code = ErrCodeDBTransaction -> "database transaction error"
      [] code = ErrCodeGRPCNotReady -> "gRPC service not ready"
      [] code = ErrCodeGRPCConnection -> "gRPC connection error"
      [] code = ErrCodeGRPCDeadline -> "gRPC deadline exceeded"
      [] OTHER -> "unknown error"

\* The gRPC code ToGRPCStatus picks for an error code.
GRPCCode(code) ==
    CASE code = ErrCodeSuccess -> "OK"
      [] code = ErrCodeInvalidParam -> "InvalidArgument"
      [] code = ErrCodeUnauthorized -> "Unauthenticated"
      [] code = ErrCodeForbidden -> "PermissionDenied"
      [] code \in {ErrCodeNotFound, ErrCodeTaskNotFound} -> "NotFound"
      [] code = ErrCodeAlreadyExists -> "AlreadyExists"
      [] code \in {ErrCodeTimeout, ErrCodeTaskTimeout} -> "DeadlineExceeded"
      [] code = ErrCodeRateLimit -> "ResourceExhausted"
      [] code \in {ErrCodeDBError, ErrCodeDBNotConnected, ErrCodeDBTransaction}
            -> "Internal"
      [] code \in {ErrCodeGRPCNotReady, ErrCodeGRPCConnection} -> "Unavailable"
      [] OTHER -> "Unknown"

\* NewTaskError(code, detail).ToGRPCStatus(): the status carries the gRPC code
\* and the message of the error code; the detail is not part of it.
ToGRPCStatus(code) == [code |-> GRPCCode(code), message |-> GetCodeMsg(code)]

\* A handler returning (value, nil).
NilErr == [code |-> "OK", message |-> ""]
\* ret of a handler that has not returned.
NoRet == [code |-> "", message |-> ""]

(* ---------------------------------------------------------------------- *)
(* Rows and requests                                                       *)
(* ---------------------------------------------------------------------- *)
\* A nil *time.Time, NULL in the tables.
NullTime == -1

\* model.NewTask: status PENDING, no output, no error, retry_count 0, no
\* started_at.
NewTask ==
    [status |-> TaskStatusPending, output_result |-> "nil",
     error_message |-> "", retry_count |-> 0, started_at |-> NullTime]

NoTask ==
    [status |-> TaskStatusUnspecified, output_result |-> "nil",
     error_message |-> "", retry_count |-> 0, started_at |-> NullTime]

\* The field parts of an UpdateTaskRequest that are tried: nothing set, or
\* one of output_result, error_message, retry_count set.
Patches ==
    { [output_result |-> "nil", error_message |-> "", retry_count |-> 0],
      [output_result |-> "ok", error_message |-> "", retry_count |-> 0],
      [output_result |-> "nil", error_message |-> "boom", retry_count |-> 0],
      [output_result |-> "nil", error_message |-> "", retry_count |-> 1] }

\* pb.UpdateTaskRequest; id 0 stands for the empty string.
UpdateTaskRequests ==
    { [id |-> i, status |-> s, output_result |-> p.output_result,
       error_message |-> p.error_message, retry_count |-> p.retry_count] :
      i \in 0..MaxTasks, s \in Statuses, p \in Patches }

NoReq ==
    [id |-> 0, status |-> 0, output_result |-> "nil", error_message |-> "",
     retry_count |-> 0]

\* The status_filter values of the WatchTask requests that are tried.
StatusFilters == { {}, {TaskStatusPending}, {TaskStatusRunning} }

\* The task_ids of the WatchTask requests that are tried.
WatchTaskIds ==
    { << >> } \cup { <<i>> : i \in TaskIds } \cup { <<1, i>> : i \in TaskIds }

\* pb.WatchTaskRequest.
WatchTaskRequests ==
    { [task_ids |-> ids, include_initial |-> b, status_filter |-> f] :
      ids \in WatchTaskIds, b \in BOOLEAN, f \in StatusFilters }

NoWatchReq ==
    [task_ids |-> << >>, include_initial |-> FALSE, status_filter |-> {}]

\* pb.TaskUpdateRequest: request_id (0 stands for ""), update_type, and the
\* payloads create (a CreateTaskRequest's name) and update, each of which
\* may be nil.
TaskUpdateRequest(id, updateType, hasCreate, name, hasUpdate, r) ==
    [request_id |-> id, update_type |-> updateType, has_create |-> hasCreate,
     name |-> name, has_update |-> hasUpdate, update |-> r]

\* What the getters of a nil *pb.TaskUpdateRequest return.
NilCmd == TaskUpdateRequest(0, "", FALSE, "", FALSE, NoReq)

\* The UpdateTaskRequests sent on the TaskUpdates stream.
StreamUpdates ==
    { r \in UpdateTaskRequests :
        /\ r.id \in {0, 1}
        /\ r.status \in {TaskStatusUnspecified, TaskStatusRunning}
        /\ r.output_result = "nil"
        /\ r.error_message = ""
        /\ r.retry_count = 0 }

\* The commands a client sends with request id `id`.
Commands(id) ==
    { TaskUpdateRequest(id, "create", TRUE, n, FALSE, NoReq) : n \in {"", "t"} }
    \cup { TaskUpdateRequest(id, "create", FALSE, "", FALSE, NoReq) }
    \cup { TaskUpdateRequest(id, "update", FALSE, "", TRUE, r) :
              r \in StreamUpdates }
    \cup { TaskUpdateRequest(id, "update", FALSE, "", FALSE, NoReq) }
    \cup { TaskUpdateRequest(id, "unknown", FALSE, "", FALSE, NoReq) }

\* A response without change_event.
NoEvent ==
    [task_id |-> 0, from_status |-> 0, to_status |-> 0, change_type |-> ""]

\* pb.TaskUpdateResponse.
TaskUpdateResponse(id, success, error, event) ==
    [request_id |-> id, success |-> success, error |-> error,
     change_event |-> event]

NoResp == TaskUpdateResponse(0, FALSE, "", NoEvent)

(* ---------------------------------------------------------------------- *)
(* Repository (tables as values: db = [tasks, task_events])                *)
(* ---------------------------------------------------------------------- *)
GetEventsByTaskID(events, id) ==
    SelectSeq(events, LAMBDA e : e.task_id = id)

\* What the query of TaskRepository.GetEventsByTaskID can return: the rows
\* of the task ORDER BY timestamp ASC, where ts[k] is the timestamp of row k
\* (time.RFC3339, whole seconds); rows with the same timestamp come in any
\* order.
EventsByTimestamp(events, ts, id) ==
    LET rows == { k \in 1..Len(events) : events[k].task_id = id }
        orders == { q \in [1..Cardinality(rows) -> rows] :
                      /\ \A k \in rows : \E j \in DOMAIN q : q[j] = k
                      /\ \A i, j \in DOMAIN q : i < j => ts[q[i]] <= ts[q[j]] }
    IN  { [j \in 1..Cardinality(rows) |-> events[q[j]]] : q \in orders }

\* The statements of UpdateStatusWithEvent run inside the transaction, with a
\* compare-and-set that forgets the status condition.
UpdateStatusWithEventTxNoWhere(db, taskID, fromStatus, toStatus, insertErr) ==
    IF taskID \notin DOMAIN db.tasks
    THEN [err |-> "task not found or status mismatch", tasks |-> db.tasks,
          task_events |-> db.task_events]
    ELSE LET updated == [db.tasks EXCEPT ![taskID].status = toStatus]
         IN  IF insertErr
             THEN [err |-> "insert failed", tasks |-> updated,
                   task_events |-> db.task_events]
             ELSE [err |-> "", tasks |-> updated,
                   task_events |->
                       Append(db.task_events,
                              [task_id |-> taskID, from_status |-> fromStatus,
                               to_status |-> toStatus])]

\* The statements of UpdateStatusWithEvent run inside the transaction:
\* UPDATE tasks SET status = to WHERE id = ? AND status = from; zero rows is
\* an error; then INSERT INTO task_events, which may fail (insertErr).
\* Returns the error and the tables as the transaction sees them.
UpdateStatusWithEventTx(db, taskID, fromStatus, toStatus, insertErr) ==
    IF taskID \notin DOMAIN db.tasks \/ db.tasks[taskID].status # fromStatus
    THEN [err |-> "task not found or status mismatch", tasks |-> db.tasks,
          task_events |-> db.task_events]
    ELSE LET updated == [db.tasks EXCEPT ![taskID].status = toStatus]
         IN  IF insertErr
             THEN [err |-> "insert failed", tasks |-> updated,
                   task_events |-> db.task_events]
             ELSE [err |-> "", tasks |-> updated,
                   task_events |->
                       Append(db.task_events,
                              [task_id |-> taskID, from_status |-> fromStatus,
                               to_status |-> toStatus])]

\* A transaction wrapper that returns the error without rolling back.
ExecTxNoRollback(db, tx) == tx

\* SQLite.ExecTx: tx is what fn did inside the transaction; on an error the
\* transaction is rolled back, otherwise committed.
ExecTx(db, tx) ==
    IF tx.err # ""
    THEN [err |-> tx.err, tasks |-> db.tasks, task_events |-> db.task_events]
    ELSE tx

UpdateStatusWithEvent(db, taskID, fromStatus, toStatus, insertErr) ==
    ExecTx(db, UpdateStatusWithEventTx(db, taskID, fromStatus, toStatus,
                                       insertErr))

\* TaskRepository.Update: full-row replace by id (status included).
RepoUpdate(rows, id, t) ==
    IF id \in DOMAIN rows THEN [rows EXCEPT ![id] = t] ELSE rows

\* TaskRepository.Create: insert a row.
RepoCreate(rows, id, t) == rows @@ (id :> t)

\* History: count the tasks whose persisted status differs between two
\* versions of the table.
NoteChanges(cnt, old, new) ==
    [i \in TaskIds |->
        IF i \in DOMAIN old /\ i \in DOMAIN new /\ old[i].status # new[i].status
        THEN cnt[i] + 1 ELSE cnt[i]]

(* ---------------------------------------------------------------------- *)
(* ListTasks                                                               *)
(* ---------------------------------------------------------------------- *)
\* The page size used when the requested one is not accepted.
DefaultPageSize == 20
\* The largest page size ListTasks accepts.
MaxPageSize == 100

Min(a, b) == IF a < b THEN a ELSE b

\* pb.ListTasksRequest: page_size, page, and the first element of
\* status_filter (TaskStatusUnspecified for an empty status_filter).
ListTasksRequest(pageSize, page, status) ==
    [page_size |-> pageSize, page |-> page, status |-> status]

\* The rows a query with an optional status condition selects, in the order
\* of ORDER BY priority DESC, created_at DESC: all tasks of the model have
\* the same priority, and a task with a larger id was created later.
SelectTasks(rows, hasStatus, status) ==
    LET m == { id \in DOMAIN rows : ~hasStatus \/ rows[id].status = status }
    IN  CHOOSE q \in [1..Cardinality(m) -> m] :
            \A i, j \in 1..Cardinality(m) : i < j => q[i] > q[j]

\* TaskRepository.ListByFilter: the total of the filter and the rows of
\* LIMIT PageSize OFFSET PageIndex * PageSize.
ListByFilter(rows, filter) ==
    LET all == SelectTasks(rows, filter.HasStatus, filter.Status)
        total == Len(all)
        pageSize == IF filter.PageSize <= 0 THEN DefaultPageSize
                    ELSE filter.PageSize
        pageIndex == IF filter.PageIndex < 0 THEN 0 ELSE filter.PageIndex
        offset == pageIndex * pageSize
    IN  [tasks |-> SubSeq(all, offset + 1, Min(offset + pageSize, total)),
         total |-> total, limit |-> pageSize, offset |-> offset]

\* TaskHandler.ListTasks: the filter it builds and the response, with the
\* LIMIT and OFFSET that reached the query.
ListTasks(rows, r) ==
    LET pageSize == IF r.page_size <= 0 \/ r.page_size > MaxPageSize
                    THEN DefaultPageSize ELSE r.page_size
        pageIndex == IF r.page < 0 THEN 0 ELSE r.page
        offset == pageIndex * pageSize
        filter == [PageSize |-> pageSize, PageIndex |-> offset,
                   HasStatus |-> r.status # TaskStatusUnspecified,
                   Status |-> r.status]
    IN  ListByFilter(rows, filter)

NoListReq == ListTasksRequest(0, 0, TaskStatusUnspecified)
NoListResp == [tasks |-> << >>, total |-> 0, limit |-> 0, offset |-> 0]

\* No client is paging.
NoList ==
    [page_size |-> 1, status |-> TaskStatusUnspecified, pages |-> << >>,
     req |-> NoListReq, resp |-> NoListResp]

(* ---------------------------------------------------------------------- *)
(* A task with every column: model.Task, its row and its pb.Task           *)
(* ---------------------------------------------------------------------- *)
\* The instants time.Now() can return, in ticks of a fraction of a second.
Instants == 0..MaxInstant

\* time.Time.Unix(): the whole seconds of an instant.
Unix(t) == t \div TicksPerSecond

\* time.Time.Format(time.RFC3339): the text has the seconds and no fraction.
FormatRFC3339(t) == [seconds |-> t \div TicksPerSecond]

\* time.Parse(time.RFC3339, text): the instant at the start of that second.
ParseRFC3339(text) == text.seconds * TicksPerSecond

\* A map[string]string: nil, or a set of key/value pairs.
NilMap == [isNil |-> TRUE, entries |-> {}]
MakeMap(es) == [isNil |-> FALSE, entries |-> es]

\* A []string: nil, or a sequence.
NilSlice == [isNil |-> TRUE, elems |-> << >>]
MakeSlice(q) == [isNil |-> FALSE, elems |-> q]

\* JSON texts: null, an object, an array.
JSONNull == [kind |-> "null", members |-> {}, items |-> << >>]

\* A writer of the map column that leaves an empty map out, as null.
jsonMarshalMapOmitEmpty(m) ==
    IF m.isNil \/ m.entries = {}
    THEN JSONNull
    ELSE [kind |-> "object", members |-> m.entries, items |-> << >>]

\* json.Marshal of a map[string]string: null for nil, an object otherwise.
jsonMarshalMap(m) ==
    IF m.isNil
    THEN JSONNull
    ELSE [kind |-> "object", members |-> m.entries, items |-> << >>]

\* json.Marshal of a []string: null for nil, an array otherwise.
jsonMarshalSlice(q) ==
    IF q.isNil
    THEN JSONNull
    ELSE [kind |-> "array", members |-> {}, items |-> q.elems]

\* json.Unmarshal into the nil map of a fresh model.Task; its error is
\* dropped, and then the map stays nil.
jsonUnmarshalMap(text) ==
    IF text.kind = "object" THEN MakeMap(text.members) ELSE NilMap

\* json.Unmarshal into the nil slice of a fresh model.Task.
jsonUnmarshalSlice(text) ==
    IF text.kind = "array" THEN MakeSlice(text.items) ELSE NilSlice

\* The CreateTaskRequest messages of the round trip.
CreateTaskRequests ==
    [name : {"", "build"}, description : {"", "nightly"}, priority : 0..1,
     task_type : {"shell"},
     input_params : {NilMap, MakeMap({}), MakeMap({<<"k", "v">>})},
     dependencies : {NilSlice, MakeSlice(<< >>), MakeSlice(<<"t0">>)},
     max_retries : 0..1, created_by : {"", "ci"}]

\* model.NewTask with the instant time.Now() returned, and the id CreateTask
\* then gives it.
NewTaskAt(r, id, t) ==
    [id |-> id, name |-> r.name, description |-> r.description,
     status |-> TaskStatusPending, priority |-> r.priority,
     task_type |-> r.task_type, input_params |-> r.input_params,
     output_result |-> NilMap, dependencies |-> r.dependencies,
     retry_count |-> 0, max_retries |-> r.max_retries, error_message |-> "",
     created_at |-> t, updated_at |-> t, started_at |-> NullTime,
     completed_at |-> NullTime, created_by |-> r.created_by]

\* nullableTime: NULL for a nil time, its RFC3339 text otherwise.
nullableTime(t) ==
    IF t = NullTime THEN [seconds |-> NullTime] ELSE FormatRFC3339(t)

\* TaskRepository.Create: the row INSERTed for a model.Task.
CreateRow(t) ==
    [t EXCEPT !.input_params = jsonMarshalMap(t.input_params),
              !.output_result = jsonMarshalMap(t.output_result),
              !.dependencies = jsonMarshalSlice(t.dependencies),
              !.created_at = FormatRFC3339(t.created_at),
              !.updated_at = FormatRFC3339(t.updated_at),
              !.started_at = nullableTime(t.started_at),
              !.completed_at = nullableTime(t.completed_at)]

\* parseTime of a nullable column: nil for NULL.
parseTime(text) ==
    IF text.seconds = NullTime THEN NullTime ELSE ParseRFC3339(text)

\* scanTask: the model.Task read from a row.
scanTask(row) ==
    [row EXCEPT !.input_params = jsonUnmarshalMap(row.input_params),
                !.output_result = jsonUnmarshalMap(row.output_result),
                !.dependencies = jsonUnmarshalSlice(row.dependencies),
                !.created_at = ParseRFC3339(row.created_at),
                !.updated_at = ParseRFC3339(row.updated_at),
                !.started_at = parseTime(row.started_at),
                !.completed_at = parseTime(row.completed_at)]

\* toPBTask(task, false): times become Unix seconds, a nil time becomes 0.
toPBTask(t) ==
    [t EXCEPT !.created_at = Unix(t.created_at),
              !.updated_at = Unix(t.updated_at),
              !.started_at = IF t.started_at = NullTime
                             THEN 0 ELSE Unix(t.started_at),
              !.completed_at = IF t.completed_at = NullTime
                               THEN 0 ELSE Unix(t.completed_at)]

\* A handler returning (nil, err): the nil *pb.Task.
NilPBTask == [id |-> 0]

\* created and got before the call has returned.
NoReply == [status |-> NoRet, task |-> NilPBTask]

InitRoundIdle ==
    /\ taskRows = << >>
    /\ created = NoReply
    /\ got = NoReply
    /\ gpc = "idle"

\* No TaskError is being converted.
NoErr == [code |-> ErrCodeSuccess, detail |-> ""]

InitErrIdle ==
    /\ errIn = NoErr
    /\ errOut = NoRet

\* DefaultServerOptions: nothing is enabled, no limiter is set.
DefaultServerOptions ==
    [authEnabled |-> FALSE, rateLimitEnabled |-> FALSE,
     loggerEnabled |-> FALSE, recoveryEnabled |-> FALSE,
     tokenLimiter |-> FALSE, slidingLimiter |-> FALSE]

\* No RPC has arrived.
NoCall == [kind |-> "none", authorized |-> FALSE, allowed |-> FALSE,
           panics |-> FALSE]

\* The RPC has not ended.
NoOutcome == [code |-> "", panicked |-> FALSE]

InitMwIdle ==
    /\ mwOpts = DefaultServerOptions
    /\ mwReq = NoCall
    /\ mwOut = NoOutcome

\* NewServer: not started, the mutex free, nothing serving; no goroutine has
\* called Start.
InitSrv ==
    /\ startMutex = 0
    /\ started = FALSE
    /\ grpcServer = FALSE
    /\ httpServer = FALSE
    /\ spos = [g \in Starters |-> "idle"]
    /\ sret = [g \in Starters |-> "none"]
    /\ stopCh = << >>
    /\ starts = 0
    /\ signals = 0

\* No unit test runs.
NoTest == [taskId |-> 0, rounds |-> 0, pos |-> "none", done |-> 0,
           got |-> << >>]

InitTestIdle == test = NoTest

\* No HTTP request has been served.
NoHttp == [query |-> [page |-> "", page_size |-> "", status |-> ""],
           code |-> 0,
           body |-> [tasks |-> << >>, total |-> 0, page |-> 0, page_size |-> 0]]

InitHttpIdle == http = NoHttp

\* No channel has been closed, the notifier has not panicked.
InitCloseIdle ==
    /\ closes = [c \in Chans |-> 0]
    /\ panicked = FALSE

InitOtherIdle ==
    /\ InitRoundIdle
    /\ InitErrIdle
    /\ InitMwIdle
    /\ InitSrv
    /\ InitTestIdle
    /\ InitHttpIdle
    /\ InitCloseIdle

(* ---------------------------------------------------------------------- *)
(* Initial state: empty tables, idle handlers                              *)
(* ---------------------------------------------------------------------- *)
InitProcs ==
    /\ pc = [p \in Procs |-> "idle"]
    /\ req = [p \in Procs |-> NoReq]
    /\ task = [p \in Procs |-> NoTask]
    /\ oldStatus = [p \in Procs |-> TaskStatusUnspecified]
    /\ ret = [p \in Procs |-> NoRet]
    /\ calls = 0

InitPureIdle ==
    /\ fromIn = 0
    /\ toIn = 0
    /\ verdict = "none"
    /\ list = NoList
    /\ now = 0

InitStoreEmpty ==
    /\ tasks = << >>
    /\ task_events = << >>
    /\ event_ts = << >>
    /\ statusChanges = [i \in TaskIds |-> 0]

\* NewTaskHandler: no watchers, an empty taskUpdateCh; no stream is open.
InitBus ==
    /\ taskUpdateCh = << >>
    /\ published = << >>
    /\ watchers = [k \in WatchKeys |-> << >>]
    /\ ch = [c \in Chans |-> << >>]
    /\ wpc = [w \in Watchers |-> "idle"]
    /\ wreq = [w \in Watchers |-> NoWatchReq]
    /\ winit = [w \in Watchers |-> 1]
    /\ watchKey = [w \in Watchers |-> 0]
    /\ sent = [w \in Watchers |-> << >>]
    /\ bpc = "recv"
    /\ batch = [tasks |-> << >>, errors |-> << >>, successCount |-> 0,
                failedCount |-> 0, task |-> 0, received |-> 0,
                outcomes |-> << >>]
    /\ upc = "idle"
    /\ recvCh = << >>
    /\ recvClosed = FALSE
    /\ sendCh = << >>
    /\ out = << >>
    /\ handled = << >>
    /\ uresp = NoResp
    /\ ureq = NilCmd
    /\ ucmds = 0
    /\ rpc = "idle"
    /\ rreq = NilCmd
    /\ spc = "idle"
    /\ sresp = NoResp
    /\ cancelled = FALSE
    /\ sendClosed = FALSE

Init ==
    /\ InitStoreEmpty
    /\ InitProcs
    /\ InitBus
    /\ InitPureIdle
    /\ InitOtherIdle

\* The event logs a task can have when its status is s and every status
\* change went through UpdateStatusWithEvent.
Histories(id, s) ==
    LET ev(f, t) == [task_id |-> id, from_status |-> f, to_status |-> t]
        run == ev(TaskStatusPending, TaskStatusRunning)
    IN  CASE s = TaskStatusPending -> { << >> }
          [] s = TaskStatusRunning -> { <<run>> }
          [] s = TaskStatusCancelled ->
                { <<ev(TaskStatusPending, TaskStatusCancelled)>>,
                  <<run, ev(TaskStatusRunning, TaskStatusCancelled)>> }
          [] OTHER -> { <<run, ev(TaskStatusRunning, s)>> }

\* A store holding one task, in any status of its life cycle, with the
\* event log of the transitions that led there; idle handlers.
InitRace ==
    /\ \E s \in TaskStatusPending..TaskStatusTimeout :
         /\ tasks = (1 :> [NewTask EXCEPT !.status = s])
         /\ task_events \in Histories(1, s)
    /\ event_ts = [k \in 1..Len(task_events) |-> 0]
    /\ statusChanges =
           [i \in TaskIds |-> Len(GetEventsByTaskID(task_events, i))]
    /\ InitProcs
    /\ InitBus
    /\ InitPureIdle
    /\ InitOtherIdle

\* Arguments for one evaluation of isValidStatusTransition.
InitPure ==
    /\ InitStoreEmpty
    /\ InitProcs
    /\ InitBus
    /\ fromIn \in StatusVals
    /\ toIn \in StatusVals
    /\ verdict = "none"
    /\ list = NoList
    /\ now = 0
    /\ InitOtherIdle

(* ---------------------------------------------------------------------- *)
(* Handlers                                                                *)
(* ---------------------------------------------------------------------- *)
CanStart(p) == pc[p] \in {"idle", "done"} /\ calls < MaxCalls

\* The handler returns: its request and its copy of the task are gone.
Return(p, status) ==
    /\ pc' = [pc EXCEPT ![p] = "done"]
    /\ ret' = [ret EXCEPT ![p] = status]
    /\ req' = [req EXCEPT ![p] = NoReq]
    /\ task' = [task EXCEPT ![p] = NoTask]

\* A CreateTask that reports a missing name after inserting the task.
CreateTaskCallLateCheck(p, name) ==
    /\ CanStart(p)
    /\ calls' = calls + 1
    /\ oldStatus' = [oldStatus EXCEPT ![p] = TaskStatusUnspecified]
    /\ Cardinality(DOMAIN tasks) < MaxTasks
    /\ tasks' = RepoCreate(tasks, Cardinality(DOMAIN tasks) + 1, NewTask)
    /\ Return(p, IF name = "" THEN ToGRPCStatus(ErrCodeInvalidParam) ELSE NilErr)
    /\ UNCHANGED <<task_events, statusChanges, event_ts>>

\* CreateTask: validate the name, build the task, insert it.
CreateTaskCall(p, name) ==
    /\ CanStart(p)
    /\ calls' = calls + 1
    /\ oldStatus' = [oldStatus EXCEPT ![p] = TaskStatusUnspecified]
    /\ IF name = ""
       THEN /\ Return(p, ToGRPCStatus(ErrCodeInvalidParam))
            /\ UNCHANGED storeVars
       ELSE /\ Cardinality(DOMAIN tasks) < MaxTasks
            /\ tasks' = RepoCreate(tasks, Cardinality(DOMAIN tasks) + 1, NewTask)
            /\ Return(p, NilErr)
            /\ UNCHANGED <<task_events, statusChanges, event_ts>>

\* The unary CreateTask RPC.
CreateTask(p, name) ==
    /\ CreateTaskCall(p, name)
    /\ UNCHANGED <<busVars, watchVars, batchVars, pureVars, listVars, clockVars, otherVars, updVars>>

\* UpdateTask up to its first write: id check, GetByID, transition check.
UpdateTaskGetCall(p, r) ==
    /\ CanStart(p)
    /\ calls' = calls + 1
    /\ IF r.id = 0
       THEN /\ Return(p, ToGRPCStatus(ErrCodeInvalidParam))
            /\ oldStatus' = [oldStatus EXCEPT ![p] = TaskStatusUnspecified]
       ELSE IF r.id \notin DOMAIN tasks
       THEN /\ Return(p, ToGRPCStatus(ErrCodeTaskNotFound))
            /\ oldStatus' = [oldStatus EXCEPT ![p] = TaskStatusUnspecified]
       ELSE IF r.status # 0
       THEN /\ oldStatus' = [oldStatus EXCEPT ![p] = tasks[r.id].status]
            /\ IF ~isValidStatusTransition(tasks[r.id].status, r.status)
               THEN Return(p, ToGRPCStatus(ErrCodeInvalidState))
               ELSE /\ pc' = [pc EXCEPT ![p] = "status"]
                    /\ req' = [req EXCEPT ![p] = r]
                    /\ task' = [task EXCEPT ![p] = tasks[r.id]]
                    /\ ret' = [ret EXCEPT ![p] = NoRet]
       ELSE /\ oldStatus' = [oldStatus EXCEPT ![p] = TaskStatusUnspecified]
            /\ pc' = [pc EXCEPT ![p] = "save"]
            /\ req' = [req EXCEPT ![p] = r]
            /\ task' = [task EXCEPT ![p] = tasks[r.id]]
            /\ ret' = [ret EXCEPT ![p] = NoRet]
    /\ UNCHANGED storeVars

\* The unary UpdateTask RPC, first step.
UpdateTaskGet(p, r) ==
    /\ UpdateTaskGetCall(p, r)
    /\ UNCHANGED <<busVars, watchVars, batchVars, pureVars, listVars, clockVars, otherVars, updVars>>

\* UpdateTask: h.repo.UpdateStatusWithEvent(req.Id, oldStatus, newStatus, ...).
UpdateTaskStatusCall(p, insertErr) ==
    /\ pc[p] = "status"
    /\ LET db == [tasks |-> tasks, task_events |-> task_events]
           r == UpdateStatusWithEvent(db, req[p].id, oldStatus[p],
                                      req[p].status, insertErr)
       IN  /\ tasks' = r.tasks
           /\ task_events' = r.task_events
           /\ event_ts' = IF Len(r.task_events) > Len(task_events)
                          THEN Append(event_ts, now) ELSE event_ts
           /\ statusChanges' = NoteChanges(statusChanges, tasks, r.tasks)
           /\ IF r.err # ""
              THEN Return(p, ToGRPCStatus(ErrCodeDBError))
              ELSE /\ task' = [task EXCEPT ![p].status = req[p].status]
                   /\ pc' = [pc EXCEPT ![p] = "save"]
                   /\ UNCHANGED <<ret, req>>
    /\ UNCHANGED <<oldStatus, calls>>

\* The unary UpdateTask RPC, compare-and-set step.
UpdateTaskStatus(p, insertErr) ==
    /\ UpdateTaskStatusCall(p, insertErr)
    /\ UNCHANGED <<busVars, watchVars, batchVars, pureVars, listVars, clockVars, otherVars, updVars>>

\* The fields of the request applied to the handler's copy of the task.
ApplyFields(t, r) ==
    [t EXCEPT !.output_result =
                  IF r.output_result # "nil" THEN r.output_result ELSE @,
              !.error_message =
                  IF r.error_message # "" THEN r.error_message ELSE @,
              !.retry_count =
                  IF r.retry_count # 0 THEN r.retry_count ELSE @]

\* UpdateTask: apply the request's fields and h.repo.Update(task).
UpdateTaskSaveCall(p) ==
    /\ pc[p] = "save"
    /\ LET t == ApplyFields(task[p], req[p])
       IN  /\ tasks' = RepoUpdate(tasks, req[p].id, t)
           /\ statusChanges' =
                  NoteChanges(statusChanges, tasks, RepoUpdate(tasks, req[p].id, t))
    /\ Return(p, NilErr)
    /\ UNCHANGED <<task_events, event_ts, oldStatus, calls>>

\* The unary UpdateTask RPC, field-update step.
UpdateTaskSave(p) ==
    /\ UpdateTaskSaveCall(p)
    /\ UNCHANGED <<busVars, watchVars, batchVars, pureVars, listVars, clockVars, otherVars, updVars>>

(* ---------------------------------------------------------------------- *)
(* Event bus                                                               *)
(* ---------------------------------------------------------------------- *)
TaskChangeEvent(taskId, fromStatus, toStatus, changeType) ==
    [task_id |-> taskId, from_status |-> fromStatus, to_status |-> toStatus,
     change_type |-> changeType]

\* broadcastTaskChange: h.taskUpdateCh <- event (waits while the channel
\* is full).
broadcastTaskChange(taskId, fromStatus, toStatus, changeType) ==
    /\ Len(taskUpdateCh) < TaskUpdateChCap
    /\ taskUpdateCh' =
           Append(taskUpdateCh,
                  TaskChangeEvent(taskId, fromStatus, toStatus, changeType))
    /\ published' =
           Append(published,
                  TaskChangeEvent(taskId, fromStatus, toStatus, changeType))

\* select { case ch <- event: default: }
TrySend(chans, w, event) ==
    IF Len(chans[w]) < WatcherChCap
    THEN [chans EXCEPT ![w] = Append(@, event)]
    ELSE chans

RECURSIVE SendAllUntilFull(_, _, _)
\* A fan-out loop that gives up at the first subscriber whose buffer is full.
SendAllUntilFull(chans, chs, event) ==
    IF chs = << >> \/ Len(chans[Head(chs)]) >= WatcherChCap
    THEN chans
    ELSE SendAllUntilFull(TrySend(chans, Head(chs), event), Tail(chs), event)

RECURSIVE SendAll(_, _, _)
\* for _, ch := range chs { select { case ch <- event: default: } }
SendAll(chans, chs, event) ==
    IF chs = << >>
    THEN chans
    ELSE SendAll(TrySend(chans, Head(chs), event), Tail(chs), event)

\* A fan-out that offers the event to every subscriber of every key.
notifyWatchersAll(chans, reg, event) ==
    LET RECURSIVE all(_, _)
        all(cs, k) ==
            IF k > MaxTasks THEN cs ELSE all(SendAll(cs, reg[k], event), k + 1)
    IN  all(chans, 0)

\* notifyWatchers: the channels under the event's task id, then the
\* channels under the global key.
notifyWatchers(chans, reg, event) ==
    LET first == IF event.task_id \in DOMAIN reg
                 THEN SendAll(chans, reg[event.task_id], event)
                 ELSE chans
    IN  SendAll(first, reg[0], event)

\* The channels notifyWatchers sends the event to: those under the event's
\* task id and those under the global key. A send on a channel that has
\* been closed panics.
SendsOnClosed(reg, event) ==
    \E k \in {event.task_id, 0} \cap DOMAIN reg :
        \E i \in 1..Len(reg[k]) : closes[reg[k][i]] > 0

\* A notifier that serves the newest entry of taskUpdateCh first.
taskUpdateNotifierLast ==
    /\ taskUpdateCh # << >>
    /\ taskUpdateCh' = SubSeq(taskUpdateCh, 1, Len(taskUpdateCh) - 1)
    /\ ch' = notifyWatchers(ch, watchers, taskUpdateCh[Len(taskUpdateCh)])
    /\ panicked' =
           (panicked \/ SendsOnClosed(watchers, taskUpdateCh[Len(taskUpdateCh)]))
    /\ UNCHANGED <<published, watchers, closes>>
    /\ UNCHANGED <<storeVars, procVars, watchVars, batchVars, pureVars, listVars, clockVars, besidesClose, updVars>>

\* taskUpdateNotifier: take the next event off taskUpdateCh and fan it out.
taskUpdateNotifier ==
    /\ taskUpdateCh # << >>
    /\ taskUpdateCh' = Tail(taskUpdateCh)
    /\ ch' = notifyWatchers(ch, watchers, Head(taskUpdateCh))
    /\ panicked' = (panicked \/ SendsOnClosed(watchers, Head(taskUpdateCh)))
    /\ UNCHANGED <<published, watchers, closes>>
    /\ UNCHANGED <<storeVars, procVars, watchVars, batchVars, pureVars, listVars, clockVars, besidesClose, updVars>>

\* A key choice that takes the first task id whenever there is one.
WatchKeyOfFirst(taskIDs) == IF Len(taskIDs) >= 1 THEN taskIDs[1] ELSE 0

\* WatchTask's key: the task id when exactly one is given, else "".
WatchKeyOf(taskIDs) == IF Len(taskIDs) = 1 THEN taskIDs[1] ELSE 0

\* WatchTask: make the channel and register it under the key.
WatchRegister(w, r) ==
    /\ wpc[w] = "idle"
    /\ wpc' = [wpc EXCEPT ![w] = IF r.include_initial THEN "initial"
                                 ELSE "watching"]
    /\ wreq' = [wreq EXCEPT ![w] = r]
    /\ winit' = [winit EXCEPT ![w] = 1]
    /\ watchKey' = [watchKey EXCEPT ![w] = WatchKeyOf(r.task_ids)]
    /\ watchers' = [watchers EXCEPT ![WatchKeyOf(r.task_ids)] = Append(@, w)]
    /\ UNCHANGED <<taskUpdateCh, published, ch, sent>>
    /\ UNCHANGED <<storeVars, procVars, batchVars, pureVars, listVars, clockVars, otherVars, updVars>>

\* The synthetic event WatchTask builds for a task it fetched.
InitialEvent(rows, id) ==
    TaskChangeEvent(id, rows[id].status, rows[id].status, "initial")

\* The sequences that hold each element of S once.
Orderings(S) ==
    { q \in [1..Cardinality(S) -> S] : \A x \in S : \E k \in DOMAIN q : q[k] = x }

\* WatchTask with include_initial and task ids: GetByID of the next id, and
\* the "initial" event for it when the task exists.
WatchInitialById(w) ==
    /\ wpc[w] = "initial"
    /\ wreq[w].task_ids # << >>
    /\ LET id == wreq[w].task_ids[winit[w]]
       IN  sent' = [sent EXCEPT ![w] =
                        IF id \in DOMAIN tasks
                        THEN Append(@, InitialEvent(tasks, id))
                        ELSE @]
    /\ IF winit[w] = Len(wreq[w].task_ids)
       THEN /\ wpc' = [wpc EXCEPT ![w] = "watching"]
            /\ winit' = [winit EXCEPT ![w] = 1]
       ELSE /\ winit' = [winit EXCEPT ![w] = @ + 1]
            /\ UNCHANGED wpc
    /\ UNCHANGED <<wreq, watchKey>>
    /\ UNCHANGED <<storeVars, procVars, busVars, batchVars, pureVars, listVars, clockVars, otherVars, updVars>>

\* WatchTask with include_initial and no task ids: the top page of
\* ListByFilter (all rows of the model, in the order the query returns
\* them) and one "initial" event per row.
WatchInitialAll(w) ==
    /\ wpc[w] = "initial"
    /\ wreq[w].task_ids = << >>
    /\ \E q \in Orderings(DOMAIN tasks) :
          sent' = [sent EXCEPT ![w] =
                       @ \o [k \in 1..Len(q) |-> InitialEvent(tasks, q[k])]]
    /\ wpc' = [wpc EXCEPT ![w] = "watching"]
    /\ UNCHANGED <<wreq, winit, watchKey>>
    /\ UNCHANGED <<storeVars, procVars, busVars, batchVars, pureVars, listVars, clockVars, otherVars, updVars>>

\* A status_filter test on the status the task came from.
filteredFrom(statusFilter, event) ==
    /\ Cardinality(statusFilter) > 0
    /\ ~(\E st \in statusFilter : event.from_status = st)

\* WatchTask's status_filter test: TRUE when the event is skipped.
filtered(statusFilter, event) ==
    /\ Cardinality(statusFilter) > 0
    /\ ~(\E st \in statusFilter : event.to_status = st)

\* WatchTask's loop: event := <-ch; stream.Send(event) unless filtered.
WatchRecv(w) ==
    /\ wpc[w] = "watching"
    /\ ch[w] # << >>
    /\ sent' = [sent EXCEPT ![w] =
                    IF filtered(wreq[w].status_filter, Head(ch[w]))
                    THEN @
                    ELSE Append(@, Head(ch[w]))]
    /\ ch' = [ch EXCEPT ![w] = Tail(@)]
    /\ UNCHANGED <<taskUpdateCh, published, watchers, wpc, wreq, winit, watchKey>>
    /\ UNCHANGED <<storeVars, procVars, batchVars, pureVars, listVars, clockVars, otherVars, updVars>>

\* A removal that leaves the list as it is.
RemoveNone(chs, w) == chs

\* A removal that empties the key's list.
RemoveAll(chs, w) == << >>

\* chs without its first occurrence of w.
RemoveFirst(chs, w) ==
    IF \E i \in 1..Len(chs) : chs[i] = w
    THEN LET i == CHOOSE k \in 1..Len(chs) :
                      chs[k] = w /\ \A j \in 1..(k - 1) : chs[j] # w
         IN  SubSeq(chs, 1, i - 1) \o SubSeq(chs, i + 1, Len(chs))
    ELSE chs

\* WatchTask on ctx.Done(): the deferred function removes the channel from
\* h.watchers under the write lock.
WatchCancel(w) ==
    /\ wpc[w] = "watching"
    /\ wpc' = [wpc EXCEPT ![w] = "closing"]
    /\ watchers' = [watchers EXCEPT ![watchKey[w]] = RemoveFirst(@, w)]
    /\ UNCHANGED <<taskUpdateCh, published, ch, wreq, winit, watchKey, sent>>
    /\ UNCHANGED <<storeVars, procVars, batchVars, pureVars, listVars, clockVars, otherVars, updVars>>

\* WatchTask's deferred function after h.watchersMu.Unlock(): close(ch);
\* what the buffer still held is gone with the handler.
WatchClose(w) ==
    /\ wpc[w] = "closing"
    /\ wpc' = [wpc EXCEPT ![w] = "closed"]
    /\ closes' = [closes EXCEPT ![w] = @ + 1]
    /\ ch' = [ch EXCEPT ![w] = << >>]
    /\ UNCHANGED panicked
    /\ UNCHANGED <<taskUpdateCh, published, watchers, wreq, winit, watchKey, sent>>
    /\ UNCHANGED <<storeVars, procVars, batchVars, pureVars, listVars, clockVars, besidesClose, updVars>>

(* ---------------------------------------------------------------------- *)
(* BatchCreateTasks                                                        *)
(* ---------------------------------------------------------------------- *)
\* A BatchCreateTasks that gives up at the first request without a name.
BatchRecvAbort(name) ==
    /\ bpc = "recv"
    /\ batch.received < MaxBatch
    /\ IF name = ""
       THEN /\ batch' = [batch EXCEPT !.received = @ + 1,
                                      !.failedCount = @ + 1,
                                      !.errors = Append(@, "name is required"),
                                      !.tasks = Append(@, 0),
                                      !.outcomes = Append(@, "name is required")]
            /\ bpc' = "done"
            /\ UNCHANGED tasks
       ELSE /\ Cardinality(DOMAIN tasks) < MaxTasks
            /\ tasks' = RepoCreate(tasks, Cardinality(DOMAIN tasks) + 1, NewTask)
            /\ batch' = [batch EXCEPT !.received = @ + 1,
                                      !.task = Cardinality(DOMAIN tasks) + 1]
            /\ bpc' = "bcast"
    /\ UNCHANGED <<task_events, statusChanges, event_ts>>
    /\ UNCHANGED <<procVars, busVars, watchVars, pureVars, listVars, clockVars, otherVars, updVars>>

\* stream.Recv() returned a request: validate it and insert the task.
BatchRecv(name) ==
    /\ bpc = "recv"
    /\ batch.received < MaxBatch
    /\ IF name = ""
       THEN /\ batch' = [batch EXCEPT !.received = @ + 1,
                                      !.failedCount = @ + 1,
                                      !.errors = Append(@, "name is required"),
                                      !.tasks = Append(@, 0),
                                      !.outcomes = Append(@, "name is required")]
            /\ UNCHANGED <<tasks, bpc>>
       ELSE /\ Cardinality(DOMAIN tasks) < MaxTasks
            /\ tasks' = RepoCreate(tasks, Cardinality(DOMAIN tasks) + 1, NewTask)
            /\ batch' = [batch EXCEPT !.received = @ + 1,
                                      !.task = Cardinality(DOMAIN tasks) + 1]
            /\ bpc' = "bcast"
    /\ UNCHANGED <<task_events, statusChanges, event_ts>>
    /\ UNCHANGED <<procVars, busVars, watchVars, pureVars, listVars, clockVars, otherVars, updVars>>

\* err.Error() of a failed h.repo.Create.
CreateErrText == "db error"

\* BatchCreateTasks: a request with a name whose h.repo.Create fails.
BatchRecvInsertErr ==
    /\ bpc = "recv"
    /\ batch.received < MaxBatch
    /\ batch' = [batch EXCEPT !.received = @ + 1,
                              !.failedCount = @ + 1,
                              !.errors = Append(@, CreateErrText),
                              !.tasks = Append(@, 0),
                              !.outcomes = Append(@, CreateErrText)]
    /\ UNCHANGED bpc
    /\ UNCHANGED <<storeVars, procVars, busVars, watchVars, pureVars, listVars, clockVars, otherVars, updVars>>

\* h.broadcastTaskChange(task.ID, ..., "created"), then the task is added
\* to the response.
BatchBroadcast ==
    /\ bpc = "bcast"
    /\ broadcastTaskChange(batch.task, TaskStatusUnspecified,
                           TaskStatusPending, "created")
    /\ batch' = [batch EXCEPT !.tasks = Append(@, batch.task),
                              !.successCount = @ + 1,
                              !.task = 0,
                              !.outcomes = Append(@, "")]
    /\ bpc' = "recv"
    /\ UNCHANGED <<watchers, ch>>
    /\ UNCHANGED <<storeVars, procVars, watchVars, pureVars, listVars, clockVars, otherVars, updVars>>

\* stream.Recv() returned an error (end of input): SendAndClose(response).
BatchClose ==
    /\ bpc = "recv"
    /\ bpc' = "done"
    /\ UNCHANGED batch
    /\ UNCHANGED <<storeVars, procVars, busVars, watchVars, pureVars, listVars, clockVars, otherVars, updVars>>

\* TaskUpdates up to its main loop: the receiving and the sending goroutine
\* are started and globalCh is registered under the global key.
UpdatesOpen ==
    /\ upc = "idle"
    /\ upc' = "running"
    /\ rpc' = "recv"
    /\ spc' = "range"
    /\ watchers' = [watchers EXCEPT ![0] = Append(@, globalCh)]
    /\ UNCHANGED <<recvCh, recvClosed, sendCh, out, handled, uresp, ureq, ucmds>>
    /\ UNCHANGED <<rreq, sresp, cancelled, sendClosed>>
    /\ UNCHANGED <<taskUpdateCh, published, ch>>
    /\ UNCHANGED <<storeVars, procVars, watchVars, batchVars, pureVars, listVars, clockVars, otherVars>>

\* The client cancels the call, or the connection is lost: the stream's
\* context is done.
ClientCancel ==
    /\ upc \notin {"idle", "ended"}
    /\ ~cancelled
    /\ cancelled' = TRUE
    /\ UNCHANGED <<upc, recvCh, recvClosed, sendCh, out, handled, uresp, ureq,
                   ucmds, rpc, rreq, spc, sresp, sendClosed>>
    /\ UNCHANGED <<storeVars, procVars, busVars, watchVars, batchVars, pureVars, listVars, clockVars, otherVars>>

\* The receiving goroutine: stream.Recv() returned a command.
UpdatesRecv(c) ==
    /\ rpc = "recv"
    /\ ~cancelled
    /\ ucmds < MaxCmds
    /\ rreq' = c
    /\ rpc' = "push"
    /\ ucmds' = ucmds + 1
    /\ UNCHANGED <<upc, recvCh, recvClosed, sendCh, out, handled, uresp, ureq>>
    /\ UNCHANGED <<spc, sresp, cancelled, sendClosed>>
    /\ UNCHANGED <<storeVars, procVars, busVars, watchVars, batchVars, pureVars, listVars, clockVars, otherVars>>

\* The receiving goroutine: recvCh <- req (waits while recvCh is full).
UpdatesPush ==
    /\ rpc = "push"
    /\ Len(recvCh) < StreamChCap
    /\ recvCh' = Append(recvCh, rreq)
    /\ rreq' = NilCmd
    /\ rpc' = "recv"
    /\ UNCHANGED <<upc, recvClosed, sendCh, out, handled, uresp, ureq, ucmds>>
    /\ UNCHANGED <<spc, sresp, cancelled, sendClosed>>
    /\ UNCHANGED <<storeVars, procVars, busVars, watchVars, batchVars, pureVars, listVars, clockVars, otherVars>>

\* The receiving goroutine: stream.Recv() returned an error (the client
\* half-closed, or the context is done); close(recvCh) and return.
UpdatesRecvErr ==
    /\ rpc = "recv"
    /\ recvClosed' = TRUE
    /\ rpc' = "exited"
    /\ UNCHANGED <<upc, recvCh, sendCh, out, handled, uresp, ureq, ucmds>>
    /\ UNCHANGED <<rreq, spc, sresp, cancelled, sendClosed>>
    /\ UNCHANGED <<storeVars, procVars, busVars, watchVars, batchVars, pureVars, listVars, clockVars, otherVars>>

\* err.Error() of a returned status, "" for nil.
ErrorText(status) == IF status = NilErr THEN "" ELSE status.message

\* The reply to command c after the call it made returned status.
ReplyTo(c, status) ==
    TaskUpdateResponse(c.request_id, status = NilErr, ErrorText(status), NoEvent)

\* The main loop: case req := <-recvCh, with the switch on update_type up to
\* the point where a response is ready. A receive on the closed, empty
\* recvCh yields nil.
UpdatesCommand ==
    /\ upc = "running"
    /\ recvCh # << >> \/ recvClosed
    /\ LET c == IF recvCh # << >> THEN Head(recvCh) ELSE NilCmd
       IN  /\ recvCh' = IF recvCh # << >> THEN Tail(recvCh) ELSE recvCh
           /\ handled' = IF recvCh # << >> THEN Append(handled, c) ELSE handled
           /\ ureq' = c
           /\ IF c.update_type = "create"
              THEN IF c.has_create
                   THEN /\ CreateTaskCall(UpdProc, c.name)
                        /\ uresp' = ReplyTo(c, ret'[UpdProc])
                        /\ upc' = "reply"
                   ELSE /\ UNCHANGED <<uresp, upc>>
                        /\ UNCHANGED <<storeVars, procVars>>
              ELSE IF c.update_type = "update"
              THEN IF c.has_update
                   THEN /\ UpdateTaskGetCall(UpdProc, c.update)
                        /\ IF pc'[UpdProc] = "done"
                           THEN /\ uresp' = ReplyTo(c, ret'[UpdProc])
                                /\ upc' = "reply"
                           ELSE /\ upc' = "updating"
                                /\ UNCHANGED uresp
                   ELSE /\ UNCHANGED <<uresp, upc>>
                        /\ UNCHANGED <<storeVars, procVars>>
              ELSE /\ uresp' = TaskUpdateResponse(c.request_id, FALSE,
                                                  "unknown update type", NoEvent)
                   /\ upc' = "reply"
                   /\ UNCHANGED <<storeVars, procVars>>
    /\ UNCHANGED <<recvClosed, sendCh, out, ucmds, goVars>>
    /\ UNCHANGED <<busVars, watchVars, batchVars, pureVars, listVars, clockVars, otherVars>>

\* The main loop inside h.UpdateTask: its compare-and-set or its field
\* update; when UpdateTask returns, the reply is ready.
UpdatesUpdateStep ==
    /\ upc = "updating"
    /\ \/ \E insertErr \in BOOLEAN : UpdateTaskStatusCall(UpdProc, insertErr)
       \/ UpdateTaskSaveCall(UpdProc)
    /\ IF pc'[UpdProc] = "done"
       THEN /\ uresp' = ReplyTo(ureq, ret'[UpdProc])
            /\ upc' = "reply"
       ELSE UNCHANGED <<uresp, upc>>
    /\ UNCHANGED <<recvCh, recvClosed, sendCh, out, handled, ureq, ucmds, goVars>>
    /\ UNCHANGED <<busVars, watchVars, batchVars, pureVars, listVars, clockVars, otherVars>>

\* A main loop that writes its response to the stream itself.
UpdatesReplyDirect ==
    /\ upc = "reply"
    /\ Len(out) < MaxOut
    /\ out' = Append(out, uresp)
    /\ uresp' = NoResp
    /\ ureq' = NilCmd
    /\ upc' = "running"
    /\ UNCHANGED <<recvCh, recvClosed, sendCh, handled, ucmds, goVars>>
    /\ UNCHANGED <<storeVars, procVars, busVars, watchVars, batchVars, pureVars, listVars, clockVars, otherVars>>

\* The main loop: sendCh <- resp (waits while sendCh is full).
UpdatesReply ==
    /\ upc = "reply"
    /\ Len(sendCh) < StreamChCap
    /\ sendCh' = Append(sendCh, uresp)
    /\ uresp' = NoResp
    /\ ureq' = NilCmd
    /\ upc' = "running"
    /\ UNCHANGED <<recvCh, recvClosed, out, handled, ucmds, goVars>>
    /\ UNCHANGED <<storeVars, procVars, busVars, watchVars, batchVars, pureVars, listVars, clockVars, otherVars>>

\* The main loop: case event := <-globalCh; the response carries it.
UpdatesEvent ==
    /\ upc = "running"
    /\ ch[globalCh] # << >>
    /\ ch' = [ch EXCEPT ![globalCh] = Tail(@)]
    /\ uresp' = TaskUpdateResponse(0, TRUE, "", Head(ch[globalCh]))
    /\ upc' = "reply"
    /\ UNCHANGED <<recvCh, recvClosed, sendCh, out, handled, ureq, ucmds, goVars>>
    /\ UNCHANGED <<taskUpdateCh, published, watchers>>
    /\ UNCHANGED <<storeVars, procVars, watchVars, batchVars, pureVars, listVars, clockVars, otherVars>>

\* The sending goroutine: for resp := range sendCh takes the next response.
UpdatesTake ==
    /\ spc = "range"
    /\ sendCh # << >>
    /\ sresp' = Head(sendCh)
    /\ sendCh' = Tail(sendCh)
    /\ spc' = "send"
    /\ UNCHANGED <<upc, recvCh, recvClosed, out, handled, uresp, ureq, ucmds>>
    /\ UNCHANGED <<rpc, rreq, cancelled, sendClosed>>
    /\ UNCHANGED <<storeVars, procVars, busVars, watchVars, batchVars, pureVars, listVars, clockVars, otherVars>>

\* The sending goroutine: stream.Send(resp). On a stream whose context is
\* done Send fails and the response is lost (the error is ignored).
UpdatesSend ==
    /\ spc = "send"
    /\ cancelled \/ Len(out) < MaxOut
    /\ out' = IF cancelled THEN out ELSE Append(out, sresp)
    /\ sresp' = NoResp
    /\ spc' = "range"
    /\ UNCHANGED <<upc, recvCh, recvClosed, sendCh, handled, uresp, ureq, ucmds>>
    /\ UNCHANGED <<rpc, rreq, cancelled, sendClosed>>
    /\ UNCHANGED <<storeVars, procVars, busVars, watchVars, batchVars, pureVars, listVars, clockVars, otherVars>>

\* stream.Send(resp) of a response past the ones the model records.
UpdatesSendMore ==
    /\ spc = "send"
    /\ ~cancelled
    /\ Len(out) = MaxOut
    /\ sresp' = NoResp
    /\ spc' = "range"
    /\ UNCHANGED <<upc, recvCh, recvClosed, sendCh, out, handled, uresp, ureq,
                   ucmds>>
    /\ UNCHANGED <<rpc, rreq, cancelled, sendClosed>>
    /\ UNCHANGED <<storeVars, procVars, busVars, watchVars, batchVars, pureVars, listVars, clockVars, otherVars>>

\* The sending goroutine: sendCh is closed and empty, the range loop ends.
UpdatesSenderExit ==
    /\ spc = "range"
    /\ sendCh = << >>
    /\ sendClosed
    /\ spc' = "exited"
    /\ UNCHANGED <<upc, recvCh, recvClosed, sendCh, out, handled, uresp, ureq,
                   ucmds>>
    /\ UNCHANGED <<rpc, rreq, sresp, cancelled, sendClosed>>
    /\ UNCHANGED <<storeVars, procVars, busVars, watchVars, batchVars, pureVars, listVars, clockVars, otherVars>>

\* The main loop: case <-ctx.Done(); the deferred function removes globalCh
\* from h.watchers, closes sendCh and reaches wg.Wait().
UpdatesCancel ==
    /\ upc = "running"
    /\ cancelled
    /\ upc' = "waiting"
    /\ sendClosed' = TRUE
    /\ watchers' = [watchers EXCEPT ![0] = RemoveFirst(@, globalCh)]
    /\ UNCHANGED <<recvCh, recvClosed, sendCh, out, handled, uresp, ureq, ucmds>>
    /\ UNCHANGED <<rpc, rreq, spc, sresp, cancelled>>
    /\ UNCHANGED <<taskUpdateCh, published, ch>>
    /\ UNCHANGED <<storeVars, procVars, watchVars, batchVars, pureVars, listVars, clockVars, otherVars>>

\* wg.Wait() returns when both goroutines have returned; TaskUpdates
\* returns ctx.Err().
UpdatesReturn ==
    /\ upc = "waiting"
    /\ rpc = "exited"
    /\ spc = "exited"
    /\ upc' = "ended"
    /\ UNCHANGED <<recvCh, recvClosed, sendCh, out, handled, uresp, ureq, ucmds,
                   goVars>>
    /\ UNCHANGED <<storeVars, procVars, busVars, watchVars, batchVars, pureVars, listVars, clockVars, otherVars>>

(* ---------------------------------------------------------------------- *)
(* One evaluation of isValidStatusTransition                               *)
(* ---------------------------------------------------------------------- *)
Validate ==
    /\ verdict = "none"
    /\ verdict' = IF isValidStatusTransition(fromIn, toIn) THEN "true" ELSE "false"
    /\ UNCHANGED <<fromIn, toIn>>
    /\ UNCHANGED <<storeVars, procVars, busVars, watchVars, batchVars, updVars,
                   listVars, clockVars, otherVars>>

(* ---------------------------------------------------------------------- *)
(* A client of ListTasks                                                   *)
(* ---------------------------------------------------------------------- *)
\* The page sizes a client asks for.
PageSizes == {-1, 0, 1, 2, 3, DefaultPageSize, MaxPageSize, MaxPageSize + 1}

\* The page indexes of a single request.
PageIndexes == {-1, 0, 1}

\* The client asks for the next page of its listing: pages 0, 1, 2, ...
\* with the same filter and page size.
ListNext ==
    /\ Len(list.pages) < MaxPages
    /\ LET r == ListTasksRequest(list.page_size, Len(list.pages), list.status)
           resp == ListTasks(tasks, r)
       IN  list' = [list EXCEPT !.req = r, !.resp = resp,
                                !.pages = Append(@, resp.tasks)]
    /\ UNCHANGED <<storeVars, procVars, busVars, watchVars, batchVars, updVars,
                   pureVars, clockVars, otherVars>>

\* One ListTasks request with any page size and page index.
ListProbe(pageSize, page) ==
    /\ LET r == ListTasksRequest(pageSize, page, list.status)
       IN  list' = [list EXCEPT !.req = r, !.resp = ListTasks(tasks, r)]
    /\ UNCHANGED <<storeVars, procVars, busVars, watchVars, batchVars, updVars,
                   pureVars, clockVars, otherVars>>

\* The event log of a store whose RUNNING tasks were started by UpdateTask.
StartedEvents(rows) ==
    LET ids == [k \in 1..Cardinality(DOMAIN rows) |-> k]
        running == SelectSeq(ids, LAMBDA id : rows[id].status = TaskStatusRunning)
    IN  [k \in 1..Len(running) |->
            [task_id |-> running[k], from_status |-> TaskStatusPending,
             to_status |-> TaskStatusRunning]]

\* An unchanging store of up to MaxTasks tasks, PENDING or RUNNING, and a
\* client with a status filter (or none) and a page size.
InitList ==
    /\ \E n \in 0..MaxTasks :
         \E st \in [1..n -> {TaskStatusPending, TaskStatusRunning}] :
            tasks = [id \in 1..n |-> [NewTask EXCEPT !.status = st[id]]]
    /\ task_events = StartedEvents(tasks)
    /\ event_ts = [k \in 1..Len(task_events) |-> 0]
    /\ statusChanges =
           [i \in TaskIds |-> Len(GetEventsByTaskID(task_events, i))]
    /\ InitProcs
    /\ InitBus
    /\ fromIn = 0
    /\ toIn = 0
    /\ verdict = "none"
    /\ now = 0
    /\ \E ps \in 1..3 :
         \E st \in {TaskStatusUnspecified, TaskStatusPending, TaskStatusRunning} :
            list = [NoList EXCEPT !.page_size = ps, !.status = st]
    /\ InitOtherIdle

NextList ==
    \/ ListNext
    \/ \E ps \in PageSizes : \E pg \in PageIndexes : ListProbe(ps, pg)

SpecList == InitList /\ [][NextList]_vars

(* ---------------------------------------------------------------------- *)
(* The HTTP mirror of ListTasks                                            *)
(* ---------------------------------------------------------------------- *)
\* The values of a query parameter: absent, numbers, and a word.
QueryValues == {"", "-1", "0", "1", "2", "x"}

\* fmt.Sscanf(s, "%d", &n): n stays 0 when s is no number.
Sscanf(str) ==
    CASE str = "-1" -> -1
      [] str = "1" -> 1
      [] str = "2" -> 2
      [] OTHER -> 0

\* parseInt(s, defaultVal): the default for an absent parameter, for one
\* that is no number, and for 0.
parseInt(str, defaultVal) ==
    IF str = ""
    THEN defaultVal
    ELSE IF Sscanf(str) = 0 THEN defaultVal ELSE Sscanf(str)

\* handleListTasks, for the first request the server gets: page defaults to
\* 1 and page_size to 20, a status above 0 becomes the status filter; the
\* response of ListTasks is the body.
handleListTasks(pageVal, pageSizeVal, statusVal) ==
    /\ http = NoHttp
    /\ LET q == [page |-> pageVal, page_size |-> pageSizeVal,
                 status |-> statusVal]
           page == parseInt(q.page, 1)
           pageSize == parseInt(q.page_size, DefaultPageSize)
           v == IF q.status = "" THEN 0 ELSE parseInt(q.status, -1)
           r == ListTasksRequest(pageSize, page,
                                 IF v > 0 THEN v ELSE TaskStatusUnspecified)
           resp == ListTasks(tasks, r)
       IN  http' = [query |-> q, code |-> 200,
                    body |-> [tasks |-> resp.tasks, total |-> resp.total,
                              page |-> page, page_size |-> pageSize]]
    /\ UNCHANGED <<storeVars, procVars, busVars, watchVars, batchVars, updVars,
                   pureVars, listVars, clockVars, besidesHttp>>

NextHttp ==
    \E pg \in QueryValues : \E ps \in QueryValues : \E st \in {"", "1", "2"} :
        handleListTasks(pg, ps, st)

SpecHttp == InitList /\ [][NextHttp]_vars

(* ---------------------------------------------------------------------- *)
(* Specifications                                                          *)
(* ---------------------------------------------------------------------- *)
Next ==
    \E p \in Procs :
        \/ \E name \in {"", "t"} : CreateTask(p, name)
        \/ \E r \in UpdateTaskRequests : UpdateTaskGet(p, r)
        \/ \E insertErr \in BOOLEAN : UpdateTaskStatus(p, insertErr)
        \/ UpdateTaskSave(p)

Spec == Init /\ [][Next]_vars

\* Two status-changing UpdateTask calls on task 1, one per caller.
RaceRequests == { r \in UpdateTaskRequests : r.id = 1 /\ r.status # 0 }

RaceGet(p) ==
    /\ pc[p] = "idle"
    /\ \E r \in RaceRequests : UpdateTaskGet(p, r)

NextRace ==
    \E p \in RaceProcs :
        \/ RaceGet(p)
        \/ \E insertErr \in BOOLEAN : UpdateTaskStatus(p, insertErr)
        \/ UpdateTaskSave(p)

SpecRace == InitRace /\ [][NextRace]_vars

\* Two UpdateTask calls on task 1 that change no status and set different
\* fields: the first caller sets output_result, the second error_message,
\* with or without retry_count.
DisjointRequests(p) ==
    IF p = 1
    THEN { [id |-> 1, status |-> 0, output_result |-> "ok",
            error_message |-> "", retry_count |-> 0] }
    ELSE { [id |-> 1, status |-> 0, output_result |-> "nil",
            error_message |-> "boom", retry_count |-> n] : n \in 0..1 }

DisjointGet(p) ==
    pc[p] = "idle" /\ \E r \in DisjointRequests(p) : UpdateTaskGet(p, r)

NextDisjoint ==
    \E p \in RaceProcs :
        \/ DisjointGet(p)
        \/ UpdateTaskSave(p)

SpecDisjoint == InitRace /\ [][NextDisjoint]_vars

NextPure == Validate

SpecPure == InitPure /\ [][NextPure]_vars

\* The UpdateTask requests of the unary caller next to the bus.
BusRequests ==
    { r \in UpdateTaskRequests :
        /\ r.id = 1
        /\ r.status \in {TaskStatusRunning, TaskStatusSucceeded}
        /\ r.output_result = "nil"
        /\ r.error_message = ""
        /\ r.retry_count = 0 }

\* WatchTask requests without include_initial and status_filter.
BusWatchRequests ==
    { r \in WatchTaskRequests : ~r.include_initial /\ r.status_filter = {} }

\* The two WatchTask streams of a fan-out to more than one subscriber.
FanWatchers == {1, 2}

\* The bus with one unary caller, one BatchCreateTasks stream and one
\* global subscriber.
NextBus ==
    \/ CreateTask(1, "t")
    \/ \E r \in BusRequests : UpdateTaskGet(1, r)
    \/ UpdateTaskStatus(1, FALSE)
    \/ UpdateTaskSave(1)
    \/ \E name \in {"", "t"} : BatchRecv(name)
    \/ BatchBroadcast
    \/ BatchClose
    \/ taskUpdateNotifier
    \/ WatchRegister(1, NoWatchReq)
    \/ WatchRecv(1)
    \/ WatchCancel(1)
    \/ WatchClose(1)

SpecBus == Init /\ [][NextBus]_vars

\* The fan-out: one BatchCreateTasks stream publishing, the notifier, and
\* two WatchTask streams.
NextFan ==
    \/ BatchRecv("t")
    \/ BatchBroadcast
    \/ taskUpdateNotifier
    \/ \E w \in FanWatchers :
        \/ \E r \in BusWatchRequests : WatchRegister(w, r)
        \/ WatchRecv(w)
        \/ WatchCancel(w)
        \/ WatchClose(w)

SpecFan == Init /\ [][NextFan]_vars

\* WatchTask requests without status_filter.
RegWatchRequests == { r \in WatchTaskRequests : r.status_filter = {} }

\* The WatchTask streams that register and end next to the TaskUpdates
\* stream.
RegWatchers == {1, 2}

\* The registry: WatchTask streams and a TaskUpdates stream come and go.
NextReg ==
    \/ \E w \in RegWatchers :
        \/ \E r \in RegWatchRequests : WatchRegister(w, r)
        \/ WatchInitialById(w)
        \/ WatchInitialAll(w)
        \/ WatchCancel(w)
        \/ WatchClose(w)
    \/ UpdatesOpen
    \/ ClientCancel
    \/ UpdatesRecvErr
    \/ UpdatesCancel
    \/ UpdatesSenderExit
    \/ UpdatesReturn

SpecReg == Init /\ [][NextReg]_vars

\* The fan-out next to streams that end: a BatchCreateTasks stream
\* publishing, the notifier, a WatchTask stream and a TaskUpdates stream
\* that register and end.
NextClose ==
    \/ BatchRecv("t")
    \/ BatchBroadcast
    \/ taskUpdateNotifier
    \/ \E r \in BusWatchRequests : WatchRegister(1, r)
    \/ WatchCancel(1)
    \/ WatchClose(1)
    \/ UpdatesOpen
    \/ ClientCancel
    \/ UpdatesRecvErr
    \/ UpdatesCancel
    \/ UpdatesSenderExit
    \/ UpdatesReturn

SpecClose == Init /\ [][NextClose]_vars

\* One WatchTask stream with include_initial and status_filter, next to a
\* publishing BatchCreateTasks stream.
NextWatch ==
    \/ BatchRecv("t")
    \/ BatchBroadcast
    \/ taskUpdateNotifier
    \/ \E r \in WatchTaskRequests : WatchRegister(1, r)
    \/ WatchInitialById(1)
    \/ WatchInitialAll(1)
    \/ WatchRecv(1)
    \/ WatchCancel(1)
    \/ WatchClose(1)

SpecWatch == Init /\ [][NextWatch]_vars

\* One TaskUpdates stream: its commands, its replies, its end.
NextUpd ==
    \/ UpdatesOpen
    \/ \E c \in Commands(ucmds + 1) : UpdatesRecv(c)
    \/ UpdatesPush
    \/ UpdatesRecvErr
    \/ UpdatesCommand
    \/ UpdatesUpdateStep
    \/ UpdatesReply
    \/ UpdatesTake
    \/ UpdatesSend
    \/ ClientCancel
    \/ UpdatesCancel
    \/ UpdatesSenderExit
    \/ UpdatesReturn

SpecUpd == Init /\ [][NextUpd]_vars

\* The commands of a client that only probes the stream.
ProbeCommands(id) ==
    { c \in Commands(id) : c.update_type = "unknown" }

\* One TaskUpdates stream with BatchCreateTasks publishing next to it: the
\* stream carries replies and change events.
NextUpdEv ==
    \/ BatchRecv("t")
    \/ BatchBroadcast
    \/ taskUpdateNotifier
    \/ UpdatesOpen
    \/ \E c \in ProbeCommands(ucmds + 1) : UpdatesRecv(c)
    \/ UpdatesPush
    \/ UpdatesRecvErr
    \/ UpdatesCommand
    \/ UpdatesReply
    \/ UpdatesEvent
    \/ UpdatesTake
    \/ UpdatesSend
    \/ ClientCancel
    \/ UpdatesCancel
    \/ UpdatesSenderExit
    \/ UpdatesReturn

SpecUpdEv == Init /\ [][NextUpdEv]_vars

\* One TaskUpdates stream whose client reads every response, under the
\* scheduling of the Go runtime: a goroutine that can take a step takes it,
\* stream.Recv() fails once the context is done, and a select with several
\* ready cases picks each of them sooner or later. The client is free to
\* send, to half-close and to cancel, or not to.
NextUpdLive ==
    \/ UpdatesOpen
    \/ \E c \in ProbeCommands(ucmds + 1) : UpdatesRecv(c)
    \/ UpdatesPush
    \/ UpdatesRecvErr
    \/ UpdatesCommand
    \/ UpdatesReply
    \/ UpdatesTake
    \/ UpdatesSend
    \/ UpdatesSendMore
    \/ ClientCancel
    \/ UpdatesCancel
    \/ UpdatesSenderExit
    \/ UpdatesReturn

SpecUpdLive ==
    /\ Init
    /\ [][NextUpdLive]_vars
    /\ WF_vars(UpdatesPush)
    /\ WF_vars(cancelled /\ UpdatesRecvErr)
    /\ WF_vars(UpdatesCommand)
    /\ WF_vars(UpdatesReply)
    /\ WF_vars(UpdatesTake)
    /\ WF_vars(UpdatesSend)
    /\ WF_vars(UpdatesSendMore)
    /\ SF_vars(UpdatesCancel)
    /\ WF_vars(UpdatesSenderExit)
    /\ WF_vars(UpdatesReturn)

\* One BatchCreateTasks stream on an empty store: requests with and without
\* a name, inserts that fail, the end of input; the notifier drains the
\* events.
NextBatch ==
    \/ \E name \in {"", "t"} : BatchRecv(name)
    \/ BatchRecvInsertErr
    \/ BatchBroadcast
    \/ BatchClose
    \/ taskUpdateNotifier

SpecBatch == Init /\ [][NextBatch]_vars

\* CreateTask callers, with and without a name, next to a BatchCreateTasks
\* stream that creates tasks too and publishes them.
NextCreate ==
    \/ \E p \in Procs : \E name \in {"", "t"} : CreateTask(p, name)
    \/ BatchRecv("t")
    \/ BatchBroadcast
    \/ taskUpdateNotifier

SpecCreate == Init /\ [][NextCreate]_vars

\* A second passes.
Tick ==
    /\ now < MaxTime
    /\ now' = now + 1
    /\ UNCHANGED <<storeVars, procVars, busVars, watchVars, batchVars, pureVars,
                   listVars, otherVars, updVars>>

\* The UpdateTask requests of a caller that runs a task to its end.
LogRequests ==
    { r \in UpdateTaskRequests :
        /\ r.id = 1
        /\ r.status \in {TaskStatusRunning, TaskStatusSucceeded}
        /\ r.error_message = ""
        /\ r.retry_count = 0 }

\* One caller that creates a task and moves it through its life cycle while
\* time passes.
NextLog ==
    \/ CreateTask(1, "t")
    \/ \E r \in LogRequests : UpdateTaskGet(1, r)
    \/ UpdateTaskStatus(1, FALSE)
    \/ UpdateTaskSave(1)
    \/ Tick

SpecLog == Init /\ [][NextLog]_vars

(* ---------------------------------------------------------------------- *)
(* CreateTask and GetTask with every column                                *)
(* ---------------------------------------------------------------------- *)
\* CreateTask(req): an empty name is refused; otherwise the task built by
\* NewTask gets a fresh id, its row is inserted and the task is returned.
CreateTaskFull ==
    /\ gpc = "idle"
    /\ \E r \in CreateTaskRequests :
         IF r.name = ""
         THEN /\ created' = [status |-> ToGRPCStatus(ErrCodeInvalidParam),
                             task |-> NilPBTask]
              /\ gpc' = "refused"
              /\ UNCHANGED taskRows
         ELSE \E id \in TaskIds \ DOMAIN taskRows : \E t \in Instants :
                LET new == NewTaskAt(r, id, t)
                IN  /\ taskRows' = taskRows @@ (id :> CreateRow(new))
                    /\ created' = [status |-> NilErr, task |-> toPBTask(new)]
                    /\ gpc' = "created"
    /\ UNCHANGED got
    /\ UNCHANGED <<storeVars, procVars, busVars, watchVars, batchVars, pureVars,
                   listVars, clockVars, besidesRound, updVars>>

\* GetTask(id): an empty id is refused, a missing row is TaskNotFound;
\* otherwise the row is scanned and returned.
GetTaskFull ==
    /\ gpc = "created"
    /\ \E id \in {0} \cup TaskIds :
         got' = IF id = 0
                THEN [status |-> ToGRPCStatus(ErrCodeInvalidParam),
                      task |-> NilPBTask]
                ELSE IF id \notin DOMAIN taskRows
                THEN [status |-> ToGRPCStatus(ErrCodeTaskNotFound),
                      task |-> NilPBTask]
                ELSE [status |-> NilErr,
                      task |-> toPBTask(scanTask(taskRows[id]))]
    /\ gpc' = "read"
    /\ UNCHANGED <<taskRows, created>>
    /\ UNCHANGED <<storeVars, procVars, busVars, watchVars, batchVars, pureVars,
                   listVars, clockVars, besidesRound, updVars>>

NextRound ==
    \/ CreateTaskFull
    \/ GetTaskFull

SpecRound == Init /\ [][NextRound]_vars

(* ---------------------------------------------------------------------- *)
(* TaskError.ToGRPCStatus on every error code                              *)
(* ---------------------------------------------------------------------- *)
\* The error codes of the package.
ErrorCodes ==
    {ErrCodeSuccess, ErrCodeUnknown, ErrCodeInvalidParam, ErrCodeUnauthorized,
     ErrCodeForbidden, ErrCodeNotFound, ErrCodeAlreadyExists,
     ErrCodeInvalidState, ErrCodeTimeout, ErrCodeRateLimit,
     ErrCodeTaskNotFound, ErrCodeTaskAlreadyRunning, ErrCodeTaskTerminated,
     ErrCodeTaskCancelled, ErrCodeTaskTimeout, ErrCodeTaskDependency,
     ErrCodeTaskRetryExhausted, ErrCodeDBError, ErrCodeDBNotConnected,
     ErrCodeDBTransaction, ErrCodeGRPCNotReady, ErrCodeGRPCConnection,
     ErrCodeGRPCDeadline}

\* NewTaskError(code, detail) for every code and some details.
TaskErrors == [code : ErrorCodes, detail : {"", "id is required", "locked"}]

\* One TaskError waits to be converted.
InitErr ==
    /\ InitStoreEmpty
    /\ InitProcs
    /\ InitBus
    /\ InitPureIdle
    /\ InitRoundIdle
    /\ InitMwIdle
    /\ InitSrv
    /\ InitTestIdle
    /\ InitHttpIdle
    /\ InitCloseIdle
    /\ errIn \in TaskErrors
    /\ errOut = NoRet

\* e.ToGRPCStatus() for the TaskError in errIn.
ConvertError ==
    /\ errOut = NoRet
    /\ errOut' = ToGRPCStatus(errIn.code)
    /\ UNCHANGED errIn
    /\ UNCHANGED <<storeVars, procVars, busVars, watchVars, batchVars, pureVars,
                   listVars, clockVars, besidesErr, updVars>>

NextErr == ConvertError

SpecErr == InitErr /\ [][NextErr]_vars

(* ---------------------------------------------------------------------- *)
(* The interceptors of the gRPC server                                     *)
(* ---------------------------------------------------------------------- *)
\* What WithAuth, WithRateLimit, WithSlidingWindowRateLimit, WithLogger and
\* WithRecovery can leave in serverOptions. One of the limiters is set when
\* and only when rate limiting is enabled through its option.
ServerOptionSets ==
    { o \in [authEnabled : BOOLEAN, rateLimitEnabled : BOOLEAN,
             loggerEnabled : BOOLEAN, recoveryEnabled : BOOLEAN,
             tokenLimiter : BOOLEAN, slidingLimiter : BOOLEAN] :
        o.rateLimitEnabled = (o.tokenLimiter \/ o.slidingLimiter) }

\* The interceptors GetUnaryServerOptions collects, outermost first; the
\* unary and the stream list are built alike.
Collected(o) ==
    (IF o.recoveryEnabled THEN <<"recovery">> ELSE << >>)
    \o (IF o.loggerEnabled THEN <<"logger">> ELSE << >>)
    \o (IF o.rateLimitEnabled /\ o.tokenLimiter
        THEN <<"ratelimit">>
        ELSE IF o.rateLimitEnabled /\ o.slidingLimiter
        THEN <<"sliding">>
        ELSE << >>)
    \o (IF o.authEnabled THEN <<"auth">> ELSE << >>)

\* The interceptors GetUnaryServerOptions hands to grpc.UnaryInterceptor and
\* grpc.StreamInterceptor: the only one, or of several the last.
Installed(o) ==
    LET all == Collected(o)
    IN  IF Len(all) = 0 THEN << >> ELSE <<all[Len(all)]>>

\* Serving an RPC through a chain of interceptors and then the handler.
\* A panic that nothing recovers leaves with code "panic".
RECURSIVE Serve(_, _)
Serve(chain, r) ==
    IF chain = << >>
    THEN IF r.panics
         THEN [code |-> "panic", panicked |-> TRUE]
         ELSE [code |-> "OK", panicked |-> FALSE]
    ELSE LET inner == Serve(Tail(chain), r)
         IN  CASE Head(chain) = "recovery" ->
                    IF inner.code = "panic"
                    THEN [inner EXCEPT !.code = "Internal"]
                    ELSE inner
               [] Head(chain) = "logger" -> inner
               [] Head(chain) \in {"ratelimit", "sliding"} ->
                    IF r.allowed
                    THEN inner
                    ELSE [code |-> "ResourceExhausted", panicked |-> FALSE]
               [] Head(chain) = "auth" ->
                    IF r.authorized
                    THEN inner
                    ELSE [code |-> "Unauthenticated", panicked |-> FALSE]

\* The RPCs: unary or stream, with or without a valid token, within or over
\* the rate limit, with a handler that panics or returns.
Calls ==
    [kind : {"unary", "stream"}, authorized : BOOLEAN, allowed : BOOLEAN,
     panics : BOOLEAN]

\* A server built from any options, and one RPC arriving at it.
InitMw ==
    /\ InitStoreEmpty
    /\ InitProcs
    /\ InitBus
    /\ InitPureIdle
    /\ InitRoundIdle
    /\ InitErrIdle
    /\ InitSrv
    /\ InitTestIdle
    /\ InitHttpIdle
    /\ InitCloseIdle
    /\ mwOpts \in ServerOptionSets
    /\ mwReq \in Calls
    /\ mwOut = NoOutcome

\* The server serves the RPC through the interceptors it was given.
ServeCall ==
    /\ mwOut = NoOutcome
    /\ mwOut' = Serve(Installed(mwOpts), mwReq)
    /\ UNCHANGED <<mwOpts, mwReq>>
    /\ UNCHANGED <<storeVars, procVars, busVars, watchVars, batchVars, pureVars,
                   listVars, clockVars, besidesMw, updVars>>

NextMw == ServeCall

SpecMw == InitMw /\ [][NextMw]_vars

(* ---------------------------------------------------------------------- *)
(* Server.Start and waitForShutdown                                        *)
(* ---------------------------------------------------------------------- *)
\* How the set-up of Start can end: a step fails (the db directory, the
\* database, the schema, the gRPC listener), or all succeed.
SetupOutcomes == {"mkdir", "database", "schema", "grpc", "ok"}

\* A goroutine calls Start and reaches s.startMutex.Lock().
StartCall(g) ==
    /\ spos[g] \in {"idle", "returned"}
    /\ starts < MaxStarts
    /\ starts' = starts + 1
    /\ spos' = [spos EXCEPT ![g] = "lock"]
    /\ sret' = [sret EXCEPT ![g] = "none"]
    /\ UNCHANGED <<startMutex, started, grpcServer, httpServer, stopCh, signals>>
    /\ UNCHANGED <<storeVars, procVars, busVars, watchVars, batchVars, pureVars,
                   listVars, clockVars, besidesSrv, updVars>>

\* s.startMutex.Lock() returns once the mutex is free; sync.Mutex is not
\* reentrant. In Start the caller goes on holding it. In waitForShutdown
\* the caller sets started = false, unlocks, stops the gRPC and the HTTP
\* server and returns to Start.
LockStartMutex(g) ==
    /\ spos[g] \in {"lock", "shutdown"}
    /\ startMutex = 0
    /\ IF spos[g] = "lock"
       THEN /\ startMutex' = g
            /\ spos' = [spos EXCEPT ![g] = "locked"]
            /\ UNCHANGED <<started, grpcServer, httpServer>>
       ELSE /\ startMutex' = 0
            /\ started' = FALSE
            /\ grpcServer' = FALSE
            /\ httpServer' = FALSE
            /\ spos' = [spos EXCEPT ![g] = "stopped"]
    /\ UNCHANGED <<sret, stopCh, starts, signals>>
    /\ UNCHANGED <<storeVars, procVars, busVars, watchVars, batchVars, pureVars,
                   listVars, clockVars, besidesSrv, updVars>>

\* Start with the mutex held: a started server is refused; otherwise the
\* set-up runs, and when it succeeds both servers serve, started is set and
\* waitForShutdown registers for SIGINT and SIGTERM.
StartSetup(g) ==
    /\ spos[g] = "locked"
    /\ IF started
       THEN /\ spos' = [spos EXCEPT ![g] = "failed"]
            /\ sret' = [sret EXCEPT ![g] = "server already started"]
            /\ UNCHANGED <<started, grpcServer, httpServer, stopCh>>
       ELSE \E o \in SetupOutcomes :
              IF o = "ok"
              THEN /\ grpcServer' = TRUE
                   /\ httpServer' = TRUE
                   /\ started' = TRUE
                   /\ stopCh' = << >>
                   /\ spos' = [spos EXCEPT ![g] = "waiting"]
                   /\ UNCHANGED sret
              ELSE /\ spos' = [spos EXCEPT ![g] = "failed"]
                   /\ sret' = [sret EXCEPT ![g] = o]
                   /\ UNCHANGED <<started, grpcServer, httpServer, stopCh>>
    /\ UNCHANGED <<startMutex, starts, signals>>
    /\ UNCHANGED <<storeVars, procVars, busVars, watchVars, batchVars, pureVars,
                   listVars, clockVars, besidesSrv, updVars>>

\* The process is sent SIGINT or SIGTERM while waitForShutdown is
\* registered: the signal goes to stopCh unless its one slot is taken.
Signal ==
    /\ signals < MaxSignals
    /\ \E g \in Starters : spos[g] \in {"waiting", "shutdown", "stopped"}
    /\ \E sig \in {"SIGINT", "SIGTERM"} :
         stopCh' = IF Len(stopCh) < 1 THEN Append(stopCh, sig) ELSE stopCh
    /\ signals' = signals + 1
    /\ UNCHANGED <<startMutex, started, grpcServer, httpServer, spos, sret,
                   starts>>
    /\ UNCHANGED <<storeVars, procVars, busVars, watchVars, batchVars, pureVars,
                   listVars, clockVars, besidesSrv, updVars>>

\* waitForShutdown: <-stopCh returns; the caller reaches
\* s.startMutex.Lock().
ShutdownSignal(g) ==
    /\ spos[g] = "waiting"
    /\ stopCh # << >>
    /\ stopCh' = Tail(stopCh)
    /\ spos' = [spos EXCEPT ![g] = "shutdown"]
    /\ UNCHANGED <<startMutex, started, grpcServer, httpServer, sret, starts,
                   signals>>
    /\ UNCHANGED <<storeVars, procVars, busVars, watchVars, batchVars, pureVars,
                   listVars, clockVars, besidesSrv, updVars>>

\* Start returns, with its error or with nil after waitForShutdown, and the
\* deferred s.startMutex.Unlock() runs.
StartReturn(g) ==
    /\ spos[g] \in {"failed", "stopped"}
    /\ startMutex' = 0
    /\ sret' = [sret EXCEPT ![g] = IF spos[g] = "stopped" THEN "nil" ELSE @]
    /\ spos' = [spos EXCEPT ![g] = "returned"]
    /\ UNCHANGED <<started, grpcServer, httpServer, stopCh, starts, signals>>
    /\ UNCHANGED <<storeVars, procVars, busVars, watchVars, batchVars, pureVars,
                   listVars, clockVars, besidesSrv, updVars>>

NextSrv ==
    \/ \E g \in Starters : StartCall(g)
    \/ \E g \in Starters : LockStartMutex(g)
    \/ \E g \in Starters : StartSetup(g)
    \/ Signal
    \/ \E g \in Starters : ShutdownSignal(g)
    \/ \E g \in Starters : StartReturn(g)

\* Every goroutine that can run does run; signals and further calls of
\* Start may or may not come.
SpecSrvLive ==
    /\ Init
    /\ [][NextSrv]_vars
    /\ \A g \in Starters :
          /\ WF_vars(LockStartMutex(g))
          /\ WF_vars(StartSetup(g))
          /\ WF_vars(ShutdownSignal(g))
          /\ WF_vars(StartReturn(g))

(* ---------------------------------------------------------------------- *)
(* The unit tests of the notifier                                          *)
(* ---------------------------------------------------------------------- *)
\* The status changes the tests broadcast.
TestTransitions ==
    { <<TaskStatusPending, TaskStatusRunning>>,
      <<TaskStatusRunning, TaskStatusSucceeded>>,
      <<TaskStatusRunning, TaskStatusFailed>>,
      <<TaskStatusPending, TaskStatusCancelled>> }

\* A test builds a handler, registers some channels under the global key,
\* starts the notifier and then runs its rounds. The task it broadcasts has
\* an id of its own, or the empty id NewTask left it with.
InitTest ==
    /\ InitStoreEmpty
    /\ InitProcs
    /\ InitPureIdle
    /\ InitRoundIdle
    /\ InitErrIdle
    /\ InitMwIdle
    /\ InitSrv
    /\ InitHttpIdle
    /\ InitCloseIdle
    /\ taskUpdateCh = << >>
    /\ published = << >>
    /\ \E n \in 0..NumWatchers :
         watchers = [k \in WatchKeys |->
                        IF k = 0 THEN [i \in 1..n |-> i] ELSE << >>]
    /\ ch = [c \in Chans |-> << >>]
    /\ wpc = [w \in Watchers |-> "idle"]
    /\ wreq = [w \in Watchers |-> NoWatchReq]
    /\ winit = [w \in Watchers |-> 1]
    /\ watchKey = [w \in Watchers |-> 0]
    /\ sent = [w \in Watchers |-> << >>]
    /\ bpc = "recv"
    /\ batch = [tasks |-> << >>, errors |-> << >>, successCount |-> 0,
                failedCount |-> 0, task |-> 0, received |-> 0,
                outcomes |-> << >>]
    /\ upc = "idle"
    /\ recvCh = << >>
    /\ recvClosed = FALSE
    /\ sendCh = << >>
    /\ out = << >>
    /\ handled = << >>
    /\ uresp = NoResp
    /\ ureq = NilCmd
    /\ ucmds = 0
    /\ rpc = "idle"
    /\ rreq = NilCmd
    /\ spc = "idle"
    /\ sresp = NoResp
    /\ cancelled = FALSE
    /\ sendClosed = FALSE
    /\ \E id \in {0, 1} : \E n \in 1..MaxRounds :
         test = [taskId |-> id, rounds |-> n, pos |-> "broadcast",
                 done |-> 0, got |-> << >>]

\* The test calls handler.broadcastTaskChange.
TestBroadcast ==
    /\ test.pos = "broadcast"
    /\ \E tr \in TestTransitions :
         broadcastTaskChange(test.taskId, tr[1], tr[2], "test")
    /\ test' = [test EXCEPT !.pos = "receive"]
    /\ UNCHANGED <<watchers, ch>>
    /\ UNCHANGED <<storeVars, procVars, watchVars, batchVars, pureVars, listVars,
                   clockVars, besidesTest, updVars>>

\* The test's <-handler.taskUpdateCh returns; after its last round the test
\* passes.
TestReceive ==
    /\ test.pos = "receive"
    /\ taskUpdateCh # << >>
    /\ taskUpdateCh' = Tail(taskUpdateCh)
    /\ test' = [test EXCEPT
                  !.got = Append(@, Head(taskUpdateCh)),
                  !.done = @ + 1,
                  !.pos = IF test.done + 1 = test.rounds
                          THEN "passed" ELSE "broadcast"]
    /\ UNCHANGED <<published, watchers, ch>>
    /\ UNCHANGED <<storeVars, procVars, watchVars, batchVars, pureVars, listVars,
                   clockVars, besidesTest, updVars>>

NextTest ==
    \/ TestBroadcast
    \/ TestReceive
    \/ taskUpdateNotifier

SpecTest == InitTest /\ [][NextTest]_vars

\* The test goroutine and the notifier goroutine both run when they can.
SpecTestLive ==
    /\ InitTest
    /\ [][NextTest]_vars
    /\ WF_vars(TestBroadcast)
    /\ WF_vars(TestReceive)
    /\ WF_vars(taskUpdateNotifier)

(* ---------------------------------------------------------------------- *)
(* Claims                                                                  *)
(* ---------------------------------------------------------------------- *)

\* The transition table of the state machine: PENDING to RUNNING or
\* CANCELLED, RUNNING to SUCCEEDED, FAILED, CANCELLED or TIMEOUT.
TransitionTable(from, to) ==
    \/ /\ from = TaskStatusPending
       /\ to \in {TaskStatusRunning, TaskStatusCancelled}
    \/ /\ from = TaskStatusRunning
       /\ to \in {TaskStatusSucceeded, TaskStatusFailed,
                  TaskStatusCancelled, TaskStatusTimeout}

\* C1: for every pair (from, to), isValidStatusTransition(from, to) is true
\* exactly for the pairs of the transition table; it is false for every
\* other pair: terminal or UNSPECIFIED sources, self-transitions, and values
\* outside the enum.
C1_TransitionTable ==
    verdict # "none" =>
        /\ (verdict = "true") <=> TransitionTable(fromIn, toIn)
        /\ IsTerminal(fromIn) => verdict = "false"
        /\ fromIn = TaskStatusUnspecified => verdict = "false"
        /\ fromIn = toIn => verdict = "false"

\* C1 witness: an allowed pair was evaluated and accepted.
C1_Witness ==
    /\ fromIn = TaskStatusRunning
    /\ toIn = TaskStatusTimeout
    /\ verdict = "true"

\* A caller whose compare-and-set went through.
Committed(p) ==
    \/ pc[p] = "save"
    \/ pc[p] = "done" /\ ret[p] = NilErr

\* C2: of two concurrent status-changing UpdateTask calls that read the same
\* task in the same source status, at most one commits its transition, and
\* once both have returned the other one has returned an error.
C2_OneWinner ==
    \A p \in RaceProcs : \A q \in RaceProcs \ {p} :
        (pc[p] # "idle" /\ pc[q] # "idle" /\ oldStatus[p] = oldStatus[q]) =>
            /\ ~(Committed(p) /\ Committed(q))
            /\ (pc[p] = "done" /\ pc[q] = "done" /\ Committed(p)) =>
                   ret[q].code # "OK"

\* C2 witness: both calls read the task as PENDING and asked for a legal
\* transition; one returned success, the other lost the compare-and-set.
C2_Witness ==
    /\ pc[1] = "done" /\ pc[2] = "done"
    /\ oldStatus[1] = TaskStatusPending /\ oldStatus[2] = TaskStatusPending
    /\ ret[1] = NilErr
    /\ ret[2].message = "database error"
    /\ Len(task_events) = 1

\* C3 (as claimed): when the compare-and-set of UpdateStatusWithEvent
\* affects zero rows, UpdateTask returns the error kind InvalidState.
C3_MismatchIsInvalidState ==
    [][\A p \in Procs :
          ( /\ pc[p] = "status"
            /\ pc'[p] # "status"
            /\ \/ req[p].id \notin DOMAIN tasks
               \/ tasks[req[p].id].status # oldStatus[p] ) =>
              ret'[p].message = "invalid state"]_vars

\* What UpdateStatusWithEvent(id, from, to) may do to the tables: change the
\* row from `from` to `to` and append the one event, or leave both alone and
\* report an error; the first only when the row exists in status `from` and
\* the insert works.
AtomicOutcome(id, from, to, insertErr, r) ==
    LET hit == id \in DOMAIN tasks /\ tasks[id].status = from
    IN  IF hit /\ ~insertErr
        THEN /\ r.err = ""
             /\ r.tasks = [tasks EXCEPT ![id].status = to]
             /\ r.task_events =
                    Append(task_events,
                           [task_id |-> id, from_status |-> from,
                            to_status |-> to])
        ELSE /\ r.err # ""
             /\ r.tasks = tasks
             /\ r.task_events = task_events

\* C4: UpdateStatusWithEvent is atomic. Either the row's status went from
\* `from` to `to` and exactly one event (from, to) was appended, or the row
\* table and the event log are unchanged; the second is the case whenever
\* the task does not exist, its status is not `from`, or the event insert
\* fails. Stated for the call UpdateTask makes, and for a call with any
\* arguments (ids without a row included) on the tables of any state.
C4_StatusWithEventAtomic ==
    [][/\ \A p \in Procs : \A insertErr \in BOOLEAN :
            UpdateTaskStatus(p, insertErr) =>
                AtomicOutcome(req[p].id, oldStatus[p], req[p].status, insertErr,
                              [err |-> IF pc'[p] = "done" THEN "failed" ELSE "",
                               tasks |-> tasks', task_events |-> task_events'])
       /\ \A id \in TaskIds : \A from, to \in Statuses :
            \A insertErr \in BOOLEAN :
                AtomicOutcome(id, from, to, insertErr,
                              UpdateStatusWithEvent(
                                  [tasks |-> tasks, task_events |-> task_events],
                                  id, from, to, insertErr))]_vars

\* C4 witness: a compare-and-set went through; the row has the new status
\* and the last event of the log is that transition.
C4_Witness ==
    \E p \in Procs :
        /\ pc[p] = "save"
        /\ req[p].status # 0
        /\ tasks[req[p].id].status = req[p].status
        /\ task_events # << >>
        /\ task_events[Len(task_events)] =
               [task_id |-> req[p].id, from_status |-> oldStatus[p],
                to_status |-> req[p].status]

\* C5 (as claimed): the number of events in a task's log equals the number
\* of times its persisted status has changed.
C5_EventsCountChanges ==
    \A i \in TaskIds :
        Len(GetEventsByTaskID(task_events, i)) = statusChanges[i]

\* C6 (as claimed): the field-update step of UpdateTask leaves the persisted
\* status of the task as it was just before the step.
C6_SaveKeepsStatus ==
    [][\A p \in Procs :
          (pc[p] = "save" /\ pc'[p] = "done") =>
              tasks'[req[p].id].status = tasks[req[p].id].status]_vars

\* C7 (as claimed): every event of a task's log is a valid transition and
\* starts from the status the event before it ended in (PENDING for the
\* first).
C7_LogIsChain ==
    \A i \in TaskIds :
        LET log == GetEventsByTaskID(task_events, i)
        IN  \A k \in 1..Len(log) :
                /\ TransitionTable(log[k].from_status, log[k].to_status)
                /\ log[k].from_status =
                       IF k = 1 THEN TaskStatusPending
                       ELSE log[k - 1].to_status

\* C8: an UpdateTask with a non-zero status on a task whose status is
\* terminal returns the InvalidState error and changes nothing: rows
\* (status, output_result, error_message, retry_count) and event log are as
\* before the call.
C8_TerminalRejected ==
    [][\A p \in Procs : \A r \in UpdateTaskRequests :
          ( /\ UpdateTaskGet(p, r)
            /\ r.status # 0
            /\ r.id \in DOMAIN tasks
            /\ IsTerminal(tasks[r.id].status) ) =>
              /\ pc'[p] = "done"
              /\ ret'[p].message = "invalid state"
              /\ ret'[p].code # "OK"
              /\ tasks' = tasks
              /\ task_events' = task_events]_vars

\* C8 witness: a call that read a terminal status has returned the
\* InvalidState error.
C8_Witness ==
    \E p \in Procs :
        /\ pc[p] = "done"
        /\ IsTerminal(oldStatus[p])
        /\ ret[p].message = "invalid state"

\* True when published holds event e.
IsPublished(log, e) == \E k \in 1..Len(log) : log[k] = e

\* C9 (as claimed): when an UpdateTask that committed a status transition
\* returns, an "updated" event with the task id, from_status and to_status
\* has been published to the bus.
C9_UpdatePublishes ==
    [][\A p \in Procs :
          ( /\ pc[p] = "save"
            /\ req[p].status # 0
            /\ pc'[p] = "done"
            /\ ret'[p] = NilErr ) =>
              IsPublished(published',
                          TaskChangeEvent(req[p].id, oldStatus[p],
                                          req[p].status, "updated"))]_vars

\* C10 (as claimed): when a successful CreateTask returns, a "created" event
\* (UNSPECIFIED to PENDING) for the new task has been published to the bus.
C10_CreatePublishes ==
    [][\A p \in Procs :
          CreateTask(p, "t") =>
              IsPublished(published',
                          TaskChangeEvent(Cardinality(DOMAIN tasks'),
                                          TaskStatusUnspecified,
                                          TaskStatusPending, "created"))]_vars

\* TRUE when channel c is in the list chs.
InList(chs, c) == \E k \in 1..Len(chs) : chs[k] = c

\* The subscribers an event of task id is fanned out to: those registered
\* under the id and those registered under the global key.
Matching(c, id) == InList(watchers[id], c) \/ InList(watchers[0], c)

\* TaskHandler has no drop counter: the default branch of notifyWatchers'
\* select is empty, so no step counts a dropped event.
DropCounted == FALSE

\* C11 (as claimed): when an event is fanned out, every subscriber
\* registered for it either gets the event on its channel or the drop
\* counter of the bus is incremented.
C11_DeliveredOrCounted ==
    [][taskUpdateNotifier =>
          \A c \in Chans :
              Matching(c, Head(taskUpdateCh).task_id) =>
                  \/ ch'[c] = Append(ch[c], Head(taskUpdateCh))
                  \/ DropCounted]_vars

\* C12 (as claimed): a publisher inside broadcastTaskChange can always take
\* its step; it never has to wait for the notifier to free a slot of
\* taskUpdateCh.
C12_PublishNeverWaits ==
    bpc = "bcast" => ENABLED BatchBroadcast

\* C13: in one fan-out every matching subscriber with room gets the event,
\* a full one keeps its buffer as it is, nobody else's buffer changes, and
\* the entry leaves the pipeline; the notifier can always take the next
\* entry.
C13_FanOutSkipsFull ==
    /\ [][taskUpdateNotifier =>
             LET e == Head(taskUpdateCh)
             IN  /\ taskUpdateCh' = Tail(taskUpdateCh)
                 /\ \A c \in Chans :
                        IF Matching(c, e.task_id) /\ Len(ch[c]) < WatcherChCap
                        THEN ch'[c] = Append(ch[c], e)
                        ELSE ch'[c] = ch[c]]_vars
    /\ [](taskUpdateCh # << >> => ENABLED taskUpdateNotifier)

\* C13 witness: two subscribers under the global key; the first one's buffer
\* was full when the next event was fanned out, and the second subscriber,
\* registered later, got it.
C13_Witness ==
    /\ watchers[0] = <<1, 2>>
    /\ Len(published) > WatcherChCap
    /\ ch[1] = SubSeq(published, 1, WatcherChCap)
    /\ ch[2] = <<published[WatcherChCap + 1]>>
    /\ taskUpdateCh = << >>

RECURSIVE IsSubSeq(_, _)
\* TRUE when a is b with some of its elements left out.
IsSubSeq(a, b) ==
    IF a = << >> THEN TRUE
    ELSE IF b = << >> THEN FALSE
    ELSE IF Head(a) = Head(b) THEN IsSubSeq(Tail(a), Tail(b))
    ELSE IsSubSeq(a, Tail(b))

\* The events of a stream that came from the bus.
Live(events) == SelectSeq(events, LAMBDA e : e.change_type # "initial")

C15_PerTaskKey ==
    \A w \in Watchers :
        Len(wreq[w].task_ids) = 1 =>
            \A k \in 1..Len(Live(sent[w]) \o ch[w]) :
                (Live(sent[w]) \o ch[w])[k].task_id = wreq[w].task_ids[1]

\* C15 witness: a per-task subscriber got the event of its task while an
\* event of another task went through the bus.
C15_Witness ==
    \E w \in Watchers :
        /\ wreq[w].task_ids = <<2>>
        /\ Len(published) >= 3
        /\ taskUpdateCh = << >>
        /\ sent[w] = <<published[2]>>

\* C16: a WatchTask with no task id or with two registers under the global
\* key, and a fan-out offers the event, whatever its task id, to every
\* subscriber under the global key: it lands in the buffer when there is
\* room.
C16_GlobalKey ==
    [][/\ \A w \in Watchers : \A r \in WatchTaskRequests :
            (WatchRegister(w, r) /\ Len(r.task_ids) # 1) =>
                /\ watchKey'[w] = 0
                /\ watchers' = [watchers EXCEPT ![0] = Append(@, w)]
       /\ taskUpdateNotifier =>
            \A c \in Chans :
                (InList(watchers[0], c) /\ Len(ch[c]) < WatcherChCap) =>
                    ch'[c] = Append(ch[c], Head(taskUpdateCh))]_vars

\* C16 witness: a WatchTask that named tasks 1 and 2 was sent the event of
\* task 3.
C16_Witness ==
    \E w \in Watchers :
        /\ wreq[w].task_ids = <<1, 2>>
        /\ \E k \in 1..Len(sent[w]) : sent[w][k].task_id = 3

\* The number of "initial" events for task id in a stream.
InitialCount(events, id) ==
    Len(SelectSeq(events,
                  LAMBDA e : e.change_type = "initial" /\ e.task_id = id))

\* C17 (as claimed): a WatchTask with include_initial and task ids emits,
\* before any live event, exactly one "initial" event per requested task
\* that exists, with from_status = to_status = the status read; nothing for
\* a requested id without a row; and without include_initial no "initial"
\* event at all.
C17_InitialEvents ==
    /\ [](\A w \in Watchers :
            /\ ~wreq[w].include_initial =>
                   \A k \in 1..Len(sent[w]) : sent[w][k].change_type # "initial"
            /\ (wreq[w].include_initial /\ wreq[w].task_ids # << >>) =>
                   /\ \A id \in TaskIds : InitialCount(sent[w], id) <= 1
                   /\ \A k \in 1..Len(sent[w]) :
                          sent[w][k].change_type = "initial" =>
                              /\ InList(wreq[w].task_ids, sent[w][k].task_id)
                              /\ sent[w][k].task_id \in DOMAIN tasks
                              /\ sent[w][k].from_status = sent[w][k].to_status
                              /\ \A j \in 1..(k - 1) :
                                     sent[w][j].change_type = "initial")
    /\ [][\A w \in Watchers :
            WatchInitialById(w) =>
                LET id == wreq[w].task_ids[winit[w]]
                IN  sent'[w] =
                        IF id \in DOMAIN tasks
                        THEN Append(sent[w],
                                    TaskChangeEvent(id, tasks[id].status,
                                                    tasks[id].status, "initial"))
                        ELSE sent[w]]_vars

\* C18: an event drained from the subscriber buffer goes to the client
\* exactly when status_filter is empty or holds the event's to_status;
\* otherwise it is skipped.
C18_StatusFilter ==
    [][\A w \in Watchers :
          WatchRecv(w) =>
              /\ ch'[w] = Tail(ch[w])
              /\ sent'[w] =
                     IF \/ wreq[w].status_filter = {}
                        \/ Head(ch[w]).to_status \in wreq[w].status_filter
                     THEN Append(sent[w], Head(ch[w]))
                     ELSE sent[w]]_vars

\* C18 witness: a WatchTask that filters on PENDING has sent a live event
\* (to_status PENDING) to its client.
C18_Witness ==
    \E w \in Watchers :
        /\ wreq[w].status_filter = {TaskStatusPending}
        /\ ~wreq[w].include_initial
        /\ Len(sent[w]) >= 1
        /\ sent[w][1].to_status = TaskStatusPending
        /\ sent[w][1].change_type = "created"

\* The channels of the handlers that have registered under key k and have
\* not ended.
OpenChannels(k) ==
    { w \in Watchers : wpc[w] \in {"initial", "watching"} /\ watchKey[w] = k }
    \cup (IF k = 0 /\ upc \notin {"idle", "waiting", "ended"}
          THEN {globalCh} ELSE {})

\* C19: in every state the registry holds, under each key and once each,
\* exactly the channels of the WatchTask and TaskUpdates handlers that have
\* registered under that key and have not ended.
C19_RegistryExact ==
    \A k \in WatchKeys :
        /\ \A c \in Chans : InList(watchers[k], c) <=> c \in OpenChannels(k)
        /\ Len(watchers[k]) = Cardinality(OpenChannels(k))

\* C19 witness: a WatchTask and the TaskUpdates stream, both registered
\* under the global key, have ended, and another WatchTask registered under
\* it between them is still there.
C19_Witness ==
    /\ wpc[1] = "closed"
    /\ watchKey[1] = 0
    /\ upc = "ended"
    /\ wpc[2] = "watching"
    /\ watchers[0] = <<2>>

\* The request ids of the replies (responses without change_event) among
\* resps.
ReplyIds(resps) ==
    LET replies == SelectSeq(resps, LAMBDA x : x.change_event = NoEvent)
    IN  [k \in 1..Len(replies) |-> replies[k].request_id]

\* The response the sending goroutine has taken from sendCh and not yet
\* written.
Held == IF spc = "send" THEN <<sresp>> ELSE << >>

\* C20 (as claimed): whenever the main loop of TaskUpdates is between two
\* commands, the replies it has emitted are, in order, one per command it
\* has taken, with that command's request_id (on a stream that has not been
\* cancelled).
C20_OneReplyPerCommand ==
    (upc = "running" /\ ~cancelled) =>
        ReplyIds(out \o Held \o sendCh) =
            [k \in 1..Len(handled) |-> handled[k].request_id]

\* C21 (as claimed): once the receive side of a TaskUpdates stream has
\* reported the end of input and the client does not cancel, the handler
\* eventually returns.
C21_HalfCloseTerminates ==
    (recvClosed /\ ~cancelled) ~> (upc = "ended" \/ cancelled)

\* C22 (as claimed): once the context of a TaskUpdates stream is done, the
\* handler eventually returns, with both goroutines returned and globalCh
\* out of the registry.
C22_CancelTerminates ==
    cancelled ~> (/\ upc = "ended"
                  /\ rpc = "exited"
                  /\ spc = "exited"
                  /\ ~InList(watchers[0], globalCh))

\* The goroutines of the TaskUpdates stream that are inside stream.Send:
\* only the sending goroutine has a position there.
InSend == IF spc = "send" THEN {"sender"} ELSE {}

\* C23: on a TaskUpdates stream at most one goroutine is inside
\* stream.Send, and every response that reaches the wire is written by a
\* step of the sending goroutine (from "send" back to its range loop, the
\* response being the one it took from sendCh) in which neither the main
\* loop nor the receiving goroutine moves.
C23_SingleWriter ==
    /\ [](Cardinality(InSend) <= 1)
    /\ [][out' # out =>
            /\ spc = "send"
            /\ spc' = "range"
            /\ out' = Append(out, sresp)
            /\ UNCHANGED <<upc, uresp, rpc, rreq>>]_vars

\* C23 witness: a reply and a change event have both been written to the
\* stream.
C23_Witness ==
    /\ \E k \in 1..Len(out) : out[k].change_event = NoEvent
    /\ \E k \in 1..Len(out) : out[k].change_event # NoEvent

\* C24: between two requests and in the response of BatchCreateTasks,
\* success_count + failed_count is the number of requests received and
\* success_count is the number of tasks persisted; a failed request leaves
\* the handler in its receive loop with the store untouched, where the next
\* request with a name is created.
C24_BatchCountsAll ==
    /\ [](bpc \in {"recv", "done"} =>
            /\ batch.successCount + batch.failedCount = batch.received
            /\ batch.successCount = Cardinality(DOMAIN tasks))
    /\ [](( /\ bpc = "recv"
            /\ batch.received < MaxBatch
            /\ Cardinality(DOMAIN tasks) < MaxTasks ) => ENABLED BatchRecv("t"))
    /\ [][batch'.failedCount # batch.failedCount =>
            /\ bpc' = "recv"
            /\ tasks' = tasks
            /\ batch'.received = batch.received + 1]_vars

\* C24 witness: the response of a batch whose first request had no name,
\* whose second failed in the store and whose third was created.
C24_Witness ==
    /\ bpc = "done"
    /\ batch.outcomes = <<"name is required", CreateErrText, "">>
    /\ batch.successCount = 1
    /\ batch.failedCount = 2
    /\ Cardinality(DOMAIN tasks) = 1

\* C25 (as claimed): in the response of BatchCreateTasks tasks has one
\* entry per request; entry i is the created task when request i succeeded
\* and the null placeholder when it failed, and then errors[i] is the error
\* message of request i.
C25_ErrorsAligned ==
    bpc = "done" =>
        /\ Len(batch.tasks) = batch.received
        /\ \A i \in 1..Len(batch.tasks) :
              IF batch.outcomes[i] = ""
              THEN batch.tasks[i] \in DOMAIN tasks
              ELSE /\ batch.tasks[i] = 0
                   /\ i \in DOMAIN batch.errors
                   /\ batch.errors[i] = batch.outcomes[i]

\* The pages of a listing, one after the other.
RECURSIVE Flatten(_)
Flatten(pages) ==
    IF pages = << >> THEN << >> ELSE Head(pages) \o Flatten(Tail(pages))

\* C26 (as claimed): the pages 0, 1, 2, ... a client gets from ListTasks
\* for one filter and one page size over an unchanging store never hold a
\* task twice, and once enough pages have been requested to cover total(F)
\* tasks, their sizes sum to total(F) and every task matching F is in one of
\* them.
C26_PagesPartition ==
    LET all == SelectTasks(tasks, list.status # TaskStatusUnspecified,
                           list.status)
        seen == Flatten(list.pages)
    IN  /\ \A i, j \in 1..Len(seen) : i # j => seen[i] # seen[j]
        /\ Len(list.pages) * list.page_size >= Len(all) =>
              /\ Len(seen) = Len(all)
              /\ \A k \in 1..Len(all) : InList(seen, all[k])

\* C27 (as claimed): a ListTasks request is served with its page_size
\* clamped into [1, MaxPageSize], the default standing in for a page_size of
\* 0 or less, and a negative page index is served as page 0.
C27_PaginationClamped ==
    list.resp # NoListResp =>
        /\ list.resp.limit =
               IF list.req.page_size <= 0 THEN DefaultPageSize
               ELSE IF list.req.page_size > MaxPageSize THEN MaxPageSize
               ELSE list.req.page_size
        /\ list.req.page < 0 => list.resp.offset = 0

C29_StartedAtSet ==
    \A id \in DOMAIN tasks :
        (\E k \in 1..Len(task_events) :
            /\ task_events[k].task_id = id
            /\ task_events[k].to_status = TaskStatusRunning)
        => tasks[id].started_at # NullTime

\* C30 (as claimed): whatever GetEventsByTaskID returns for a task is the
\* list of its transitions in the order in which they were committed.
C30_LogInCommitOrder ==
    \A id \in TaskIds :
        \A q \in EventsByTimestamp(task_events, event_ts, id) :
            q = GetEventsByTaskID(task_events, id)

\* C31: an UpdateTask whose non-zero status is the status the task already
\* has returns the InvalidState error, leaves the rows as they are and
\* appends no event.
C31_SameStatusRejected ==
    [][\A p \in Procs : \A r \in UpdateTaskRequests :
          ( /\ UpdateTaskGet(p, r)
            /\ r.status # 0
            /\ r.id \in DOMAIN tasks
            /\ tasks[r.id].status = r.status ) =>
              /\ pc'[p] = "done"
              /\ ret'[p].message = "invalid state"
              /\ ret'[p].code # "OK"
              /\ tasks' = tasks
              /\ task_events' = task_events]_vars

\* C31 witness: the first caller has moved the task from PENDING to RUNNING,
\* the second caller then found it RUNNING and was refused with
\* InvalidState, and the log holds the one event.
C31_Witness ==
    /\ pc[1] = "done" /\ ret[1] = NilErr /\ oldStatus[1] = TaskStatusPending
    /\ pc[2] = "done" /\ ret[2].message = "invalid state"
    /\ oldStatus[2] = TaskStatusRunning
    /\ tasks[1].status = TaskStatusRunning
    /\ Len(task_events) = 1

\* The fields of a pb.Task that a read after the create must give back.
RoundTripFields ==
    {"name", "description", "status", "priority", "task_type",
     "input_params", "dependencies", "retry_count", "max_retries",
     "created_by", "created_at"}

\* C32: GetTask on the id a successful CreateTask returned gives a task
\* equal to the created one in every field except updated_at, also when a
\* map or a list is nil or empty.
C32_CreateGetRoundTrip ==
    ( /\ gpc = "read"
      /\ created.status = NilErr
      /\ got.task.id = created.task.id ) =>
        /\ got.status = NilErr
        /\ \A f \in RoundTripFields :
              LET a == created.task  b == got.task
              IN  CASE f = "name" -> a.name = b.name
                    [] f = "description" -> a.description = b.description
                    [] f = "status" -> a.status = b.status
                    [] f = "priority" -> a.priority = b.priority
                    [] f = "task_type" -> a.task_type = b.task_type
                    [] f = "input_params" -> a.input_params = b.input_params
                    [] f = "dependencies" -> a.dependencies = b.dependencies
                    [] f = "retry_count" -> a.retry_count = b.retry_count
                    [] f = "max_retries" -> a.max_retries = b.max_retries
                    [] f = "created_by" -> a.created_by = b.created_by
                    [] f = "created_at" -> a.created_at = b.created_at

\* C32 witness: a task created in the second half of a second with an empty,
\* non-nil map and a nil list has been read back.
C32_Witness ==
    /\ gpc = "read"
    /\ created.status = NilErr
    /\ got.status = NilErr
    /\ got.task.id = created.task.id
    /\ created.task.input_params = MakeMap({})
    /\ created.task.dependencies = NilSlice
    /\ \E id \in DOMAIN taskRows :
          /\ id = created.task.id
          /\ taskRows[id].input_params.kind = "object"
          /\ taskRows[id].dependencies = JSONNull
    /\ created.task.created_at = 1

\* The gRPC code the error table gives each core error kind.
TableCode(code) ==
    CASE code \in {ErrCodeInvalidParam, ErrCodeInvalidState} -> "InvalidArgument"
      [] code = ErrCodeUnauthorized -> "Unauthenticated"
      [] code = ErrCodeForbidden -> "PermissionDenied"
      [] code \in {ErrCodeNotFound, ErrCodeTaskNotFound} -> "NotFound"
      [] code = ErrCodeAlreadyExists -> "AlreadyExists"
      [] code = ErrCodeTimeout -> "DeadlineExceeded"
      [] code = ErrCodeRateLimit -> "ResourceExhausted"
      [] code \in {ErrCodeDBError, ErrCodeUnknown} -> "Internal"

\* The core error kinds the table lists.
CoreErrorCodes ==
    {ErrCodeInvalidParam, ErrCodeInvalidState, ErrCodeUnauthorized,
     ErrCodeForbidden, ErrCodeNotFound, ErrCodeTaskNotFound,
     ErrCodeAlreadyExists, ErrCodeTimeout, ErrCodeRateLimit, ErrCodeDBError,
     ErrCodeUnknown}

\* C33: ToGRPCStatus gives every core error kind the gRPC code of the table
\* (InvalidParam and InvalidState: InvalidArgument; Unauthorized:
\* Unauthenticated; Forbidden: PermissionDenied; NotFound and TaskNotFound:
\* NotFound; AlreadyExists: AlreadyExists; Timeout: DeadlineExceeded;
\* RateLimit: ResourceExhausted; DBError and Unknown: Internal).
C33_StatusTable ==
    (errOut # NoRet /\ errIn.code \in CoreErrorCodes) =>
        errOut.code = TableCode(errIn.code)

\* C34: with recovery enabled, a panic of a unary or stream handler ends the
\* RPC with Internal, whichever of logger, rate limit and auth are enabled.
C34_PanicRecovered ==
    (mwOpts.recoveryEnabled /\ mwOut.panicked) => mwOut.code = "Internal"

\* C35: once waitForShutdown has got SIGINT or SIGTERM, it takes the start
\* mutex, marks the server not started, stops the gRPC and the HTTP server,
\* and Start returns nil.
C35_ShutdownReturns ==
    \A g \in Starters :
        (spos[g] = "shutdown") ~>
            (sret[g] = "nil" /\ ~started /\ ~grpcServer /\ ~httpServer)

\* C36: with the notifier running, the receive from taskUpdateCh that
\* follows a broadcastTaskChange of the caller completes, in every round
\* and in every interleaving with the notifier.
C36_ReceiveCompletes == (test.pos = "receive") ~> (test.pos # "receive")

\* C37: GET /api/v1/tasks without page and page_size, on a store of 1 to 20
\* tasks, returns all the tasks and a total equal to their number.
C37_BareListReturnsAll ==
    ( /\ http.code = 200
      /\ http.query = [page |-> "", page_size |-> "", status |-> ""]
      /\ Cardinality(DOMAIN tasks) \in 1..DefaultPageSize ) =>
        /\ http.body.total = Cardinality(DOMAIN tasks)
        /\ Len(http.body.tasks) = Cardinality(DOMAIN tasks)
        /\ { http.body.tasks[k] : k \in 1..Len(http.body.tasks) } = DOMAIN tasks

\* C38: two concurrent UpdateTask calls on one task that change no status
\* and set different fields, one output_result and the other error_message,
\* both take effect, in every interleaving.
C38_DisjointUpdatesBothApply ==
    ( /\ pc[1] = "done" /\ ret[1] = NilErr
      /\ pc[2] = "done" /\ ret[2] = NilErr ) =>
        /\ tasks[1].output_result = "ok"
        /\ tasks[1].error_message = "boom"

\* How often an event occurs in a sequence of events.
Occurrences(q, e) == Cardinality({ k \in 1..Len(q) : q[k] = e })

\* C39: the fan-out puts an event on a registered channel at most once for
\* each time it was published, also when the event's task id is empty and
\* the channel is registered under the global key.
C39_EnqueuedAtMostOnce ==
    \A c \in Chans : \A k \in 1..Len(ch[c]) :
        Occurrences(ch[c], ch[c][k]) <= Occurrences(published, ch[c][k])

\* C40: the notifier never sends on a closed channel and no channel is
\* closed twice, in any interleaving of the fan-out with the end of a
\* WatchTask or TaskUpdates stream: a channel that has been closed is in
\* the registry no more.
C40_NoSendOnClosed ==
    /\ ~panicked
    /\ \A c \in Chans :
          /\ closes[c] <= 1
          /\ closes[c] > 0 => \A k \in WatchKeys : ~InList(watchers[k], c)

\* C40 witness: the WatchTask stream and the TaskUpdates stream, both under
\* the global key, got the first event; the second was fanned out after the
\* WatchTask stream had left the registry and before its channel is closed,
\* so only the TaskUpdates stream got it.
C40_Witness ==
    /\ Len(published) = 2
    /\ taskUpdateCh = << >>
    /\ wpc[1] = "closing"
    /\ closes[1] = 0
    /\ watchKey[1] = 0
    /\ watchers[0] = <<globalCh>>
    /\ ch[1] = <<published[1]>>
    /\ ch[globalCh] = published

====
